---- MODULE Spec2Model ----
(***************************************************************************)
(* Model of the dm-integrity / dm-crypt volume provisioning of             *)
(* src/common/cryptfs.c: cryptfs_setup_volume_new, the two target          *)
(* builders, the table loaders and cryptfs_delete_blk_dev, run against a   *)
(* model of the kernel's device-mapper name table.                         *)
(*                                                                         *)
(* C strings are TLA+ strings; a heap buffer is a sequence of one-char     *)
(* strings ending in NUL, so that zeroization and strlen are observable.   *)
(***************************************************************************)
EXTENDS Integers, Sequences, FiniteSets, TLC

(***************************************************************************)
(* Bounds of the model.                                                    *)
(***************************************************************************)
\* key lengths tried: every length within KeySlack of an expected hex length
KeySlack == 1
\* number of cryptfs_delete_blk_dev calls the caller may make
MaxDeletes == 2
\* number of entries of a container's mount set
MaxEntries == 3
\* containers that start at the same time
NProcs == 2
\* longest deadline a caller has for a mount, in sleeps of the wait loop
MaxDeadline == 5

\* starts of a container after a reboot
MaxRestarts == 1

(***************************************************************************)
(* Program constants.                                                      *)
(***************************************************************************)
TABLE_LOAD_RETRIES == 10
INTEGRITY_TAG_SIZE == 32
AUTHENC_KEY_LEN == 96
CRYPTFS_FDE_KEY_LEN == 64
CRYPTO_TYPE_AUTHENC == "capi:authenc(hmac(sha256),xts(aes))-random"
CRYPTO_TYPE == "aes-xts-plain64"
INTEGRITY_TYPE == "hmac(sha256)"
CRYPTO_HEXKEY_LEN == 2 * CRYPTFS_FDE_KEY_LEN
INTEGRITY_HEXKEY_LEN == 2 * INTEGRITY_TAG_SIZE
AUTHENC_HEXKEY_LEN == 2 * AUTHENC_KEY_LEN
DM_INTEGRITY_BUF_SIZE == 4096
DM_CRYPT_BUF_SIZE == 4096
\* sizeof(struct dm_ioctl) and sizeof(struct dm_target_spec) of linux/dm-ioctl.h
SIZEOF_DM_IOCTL == 312
SIZEOF_DM_TARGET_SPEC == 40
ZERO_BUF_SIZE == 100 * 1024 * 1024
DM_PATH_PREFIX == "/dev/mapper"

NULL == "NULL"
NUL == "\\0"

CRYPTFS_MODE_NOT_IMPLEMENTED == "NOT_IMPLEMENTED"
CRYPTFS_MODE_ENCRYPT_ONLY == "ENCRYPT_ONLY"
CRYPTFS_MODE_AUTHENC == "AUTHENC"
CRYPTFS_MODE_INTEGRITY_ENCRYPT == "INTEGRITY_ENCRYPT"
CRYPTFS_MODE_INTEGRITY_ONLY == "INTEGRITY_ONLY"
\* a value of cryptfs_mode_t outside the enumerators handled by the switch
CRYPTFS_MODE_OTHER == "OTHER"

Modes ==
    { CRYPTFS_MODE_NOT_IMPLEMENTED, CRYPTFS_MODE_ENCRYPT_ONLY, CRYPTFS_MODE_AUTHENC,
      CRYPTFS_MODE_INTEGRITY_ENCRYPT, CRYPTFS_MODE_INTEGRITY_ONLY, CRYPTFS_MODE_OTHER }

(***************************************************************************)
(* C strings and heap buffers.                                             *)
(***************************************************************************)
HexDigits == "0123456789abcdef"

\* the i-th character (1-based) of the hex key the caller provides
HexChar(i) == SubSeq(HexDigits, (i % 16) + 1, (i % 16) + 1)

\* the characters lo..hi of the caller's hex key
RECURSIVE HexRange(_, _)
HexRange(lo, hi) ==
    IF lo > hi THEN ""
    ELSE IF lo = hi THEN HexChar(lo)
    ELSE HexRange(lo, (lo + hi) \div 2) \o HexRange((lo + hi) \div 2 + 1, hi)

\* a hex key of n characters
HexKey(n) == HexRange(1, n)

\* a C string laid out in memory: its characters followed by the terminator
Buf(s) == [i \in 1..(Len(s) + 1) |-> IF i <= Len(s) THEN SubSeq(s, i, i) ELSE NUL]

\* strlen: the number of characters before the first NUL
strlen(b) == (CHOOSE i \in 1..Len(b) : b[i] = NUL /\ \A j \in 1..(i - 1) : b[j] # NUL) - 1

\* the characters lo..hi of a buffer as a string
RECURSIVE Cat(_, _, _)
Cat(b, lo, hi) ==
    IF lo > hi THEN ""
    ELSE IF lo = hi THEN b[lo]
    ELSE Cat(b, lo, (lo + hi) \div 2) \o Cat(b, (lo + hi) \div 2 + 1, hi)

\* the C string a buffer holds
CStr(b) == Cat(b, 1, strlen(b))

\* printf's %s: the NULL pointer prints as (null)
FmtS(s) == IF s = NULL THEN "(null)" ELSE s

\* printf's %d
FmtD(n) == ToString(n)

\* mem_strndup(b + off, n): at most n characters, then a terminator
mem_strndup(b, off, n) ==
    LET m == IF strlen(b) - off < n THEN strlen(b) - off ELSE n
    IN  [i \in 1..(m + 1) |-> IF i <= m THEN b[off + i] ELSE NUL]

\* mem_memset0(b, n): the first n bytes of the allocation become zero bytes
mem_memset0(b, n) == [i \in 1..Len(b) |-> IF i <= n THEN NUL ELSE b[i]]

\* the device path of a mapper label
cryptfs_get_device_path_new(name) == DM_PATH_PREFIX \o "/" \o name

\* mem_printf("%s-%s", label, "integrity")
IntegrityLabel(l) == l \o "-" \o "integrity"

(***************************************************************************)
(* The environment: block devices and the kernel's device-mapper table.    *)
(***************************************************************************)
LABEL == "c0-data"
DATA_DEV == "/dev/loop0"
META_DEV == "/dev/loop1"

\* the data device: byte size (BLKGETSIZE64) and the result of the sector-size query
BlkDevices ==
    { [bytes |-> 0, sector_size |-> 512], [bytes |-> 8 * 512, sector_size |-> -1],
      [bytes |-> 8 * 512, sector_size |-> 512], [bytes |-> 10 * 512, sector_size |-> 512],
      [bytes |-> 8 * 512, sector_size |-> 4096] }

\* what the meta device holds and how many of its bytes a read delivers:
\* nothing readable, no tag, the tag with a provided_data_sectors field, and an
\* initialised device whose reads fail (0 bytes) or end before the field (16)
MetaSuperblocks ==
    { [bytes |-> 0, magic |-> "", pds |-> 0], [bytes |-> 4096, magic |-> "", pds |-> 0] }
    \cup { [bytes |-> 4096, magic |-> "integrt", pds |-> n] : n \in { 0, 1, 8 } }
    \cup { [bytes |-> n, magic |-> "integrt", pds |-> 8] : n \in { 0, 16 } }

\* the expected hex lengths of the four modes that take a key
ExpectedLens ==
    { INTEGRITY_HEXKEY_LEN, CRYPTO_HEXKEY_LEN, CRYPTO_HEXKEY_LEN + INTEGRITY_HEXKEY_LEN,
      AUTHENC_HEXKEY_LEN }

KeyLens ==
    { 0 } \cup { n \in 0..(AUTHENC_HEXKEY_LEN + KeySlack) :
                   \E e \in ExpectedLens : n >= e - KeySlack /\ n <= e + KeySlack }

\* the calls the model makes: every key length and every NULL argument on a
\* data device of 8 sectors, and every device and superblock with a key of an
\* expected length
Inputs ==
    { i \in [real_blkdev : { NULL, DATA_DEV }, keylen : KeyLens \cup { -1 },
             meta_blkdev : { NULL, META_DEV }, mode : Modes, blk : BlkDevices,
             metaSb : MetaSuperblocks] :
        \/ /\ i.blk = [bytes |-> 8 * 512, sector_size |-> 512]
           /\ i.metaSb.pds \in { 0, 8 } /\ i.metaSb.bytes > 0
        \/ i.real_blkdev # NULL /\ i.keylen \in ExpectedLens }

NoTable == [target_type |-> "none"]
NoFrame == [fn |-> "none"]

VARIABLES
    pc,          \* position of the caller: idle, or a statement of the running function
    label, real_blkdev, key, meta_blkdev, mode,   \* arguments of the calls
    blk,         \* the data device: byte size and sector size
    metaSb,      \* the meta device's superblock
    heap,        \* allocations: the caller's key buffer and the two split copies
    f,           \* locals of cryptfs_setup_volume_new
    b,           \* locals of the running builder / table loader
    dm,          \* kernel: mapper name -> device (inactive and live table)
    nodes,       \* device nodes below DM_PATH_PREFIX
    openers,     \* paths of mapper devices an outside user holds open
    out,         \* what was written through the outer device by first-use initialization
    log,         \* string arguments handed to log statements
    ret,         \* value returned by the last cryptfs_setup_volume_new
    called,      \* cryptfs_setup_volume_new has been called
    deletes,     \* number of cryptfs_delete_blk_dev calls made
    del          \* the last cryptfs_delete_blk_dev: value returned, devices held and
                 \* devices present at the call, names it tried to remove, failed open

\* the container's volume module (c_vol.c)
VARIABLES
    vpc,         \* position of the volume module in the container's life
    vol,         \* c_vol_t: the mode chosen by c_vol_set_dm_mode
    container,   \* the container: its mount sets and flags
    files,       \* the images directory: the not-stacked marker, image files
    mtab,        \* kernel: the mount table below the container's root, in mount order
    hist,        \* what the module did: mounts tried, unmounts made, removals tried,
                 \* the calls of the c_vol_mount_image that returned last (kept
                 \* until the module's next step)
    vf           \* locals of the running c_vol function

cvol == << vpc, vol, container, files, mtab, hist, vf >>

cryptfs ==
    << pc, label, real_blkdev, key, meta_blkdev, mode, blk, metaSb, heap, f, b, dm, nodes,
       openers, out, log, ret, called, deletes, del >>

vars == << cryptfs, cvol >>

argv == << label, real_blkdev, key, meta_blkdev, mode, blk, metaSb >>

\* ---- kernel: device-mapper ioctls -------------------------------------
DmExists(d, name) == name \in DOMAIN d

\* the paths a table's constructor opened
Deps(t) == IF t = NoTable THEN {} ELSE t.deps

\* a block device is reachable under this path
BlkExists(d, nd, path) ==
    \/ path \in { DATA_DEV, META_DEV }
    \/ \E n \in DOMAIN d : path = cryptfs_get_device_path_new(n) /\ path \in nd

\* a mapper device is in use: opened from outside or referenced by another table
DmBusy(d, op, name) ==
    \/ cryptfs_get_device_path_new(name) \in op
    \/ \E n \in DOMAIN d \ { name } :
          cryptfs_get_device_path_new(name) \in Deps(d[n].inactive) \cup Deps(d[n].live)

\* DM_DEV_CREATE: reserves the name; fails when the name is taken
DmCreateOk(d, name) == ~DmExists(d, name)
DmCreate(d, name) ==
    [n \in DOMAIN d \cup { name } |->
        IF n = name THEN [inactive |-> NoTable, live |-> NoTable] ELSE d[n]]

\* DM_TABLE_LOAD: the constructor opens every device the parameters name
DmLoadOk(d, nd, name, tgt) == DmExists(d, name) /\ \A p \in tgt.deps : BlkExists(d, nd, p)
DmLoad(d, name, tgt) == [d EXCEPT ![name].inactive = tgt]

\* DM_DEV_SUSPEND without the suspend flag: the inactive table goes live
DmResumeOk(d, name) == DmExists(d, name)
DmResume(d, name) ==
    IF d[name].inactive = NoTable THEN d
    ELSE [d EXCEPT ![name].live = d[name].inactive, ![name].inactive = NoTable]

\* DM_DEV_REMOVE: ENXIO when absent, EBUSY when in use
DmRemoveErrno(d, op, name) ==
    IF ~DmExists(d, name) THEN "ENXIO" ELSE IF DmBusy(d, op, name) THEN "EBUSY" ELSE "OK"
DmRemove(d, name) == [n \in DOMAIN d \ { name } |-> d[n]]

\* ---- logging ----------------------------------------------------------
\* a log statement at a source line with its %s arguments
Logged(l, line, args) == l \cup { [line |-> line, arg |-> FmtS(a)] : a \in args }

\* a log statement without string arguments
LoggedPlain(l, line) == l \cup { [line |-> line, arg |-> ""] }

\* no container uses the volume module
VolOff ==
    /\ vpc = "off"
    /\ vol = [mode |-> CRYPTFS_MODE_NOT_IMPLEMENTED]
    /\ container = [fn |-> "none"]
    /\ files = [not_stacked |-> FALSE, images |-> FALSE]
    /\ mtab = << >>
    /\ hist = [fn |-> "none"]
    /\ vf = NoFrame

Init ==
    /\ pc = "idle"
    /\ label = LABEL
    /\ \E i \in Inputs :
          /\ real_blkdev = i.real_blkdev
          /\ key = IF i.keylen < 0 THEN NULL ELSE "key"
          /\ meta_blkdev = i.meta_blkdev
          /\ mode = i.mode
          /\ blk = i.blk
          /\ metaSb = i.metaSb
          /\ heap = [key |-> IF i.keylen < 0 THEN << >> ELSE Buf(HexKey(i.keylen)),
                     crypto_key |-> [st |-> "none", data |-> << >>],
                     integrity_key |-> [st |-> "none", data |-> << >>]]
    /\ f = NoFrame
    /\ b = NoFrame
    /\ dm = << >>
    /\ nodes = {}
    /\ openers = {}
    /\ out = [zeroed |-> 0, synced |-> FALSE]
    /\ log = {}
    /\ ret = "none"
    /\ called = FALSE
    /\ deletes = 0
    /\ del = [ret |-> 0, held |-> FALSE, before |-> {}, tried |-> << >>, openfail |-> FALSE]
    /\ VolOff

(***************************************************************************)
(* cryptfs_setup_volume_new                                                *)
(***************************************************************************)
\* the function returns v to its caller
Return(v) ==
    /\ pc' = "idle"
    /\ ret' = v
    /\ f' = NoFrame
    /\ b' = NoFrame

\* the locals as declared at function entry
SetupLocals ==
    [fn |-> "cryptfs_setup_volume_new", fs_size |-> 0, encrypt |-> FALSE, integrity |-> FALSE,
     stacked |-> FALSE, crypto_blkdev |-> NULL, integrity_blkdev |-> NULL,
     crypto_key_len |-> 0, integrity_key_len |-> 0, integrity_dev_label |-> NULL,
     initial_format |-> FALSE]

\* the caller enters cryptfs_setup_volume_new
CallSetup ==
    /\ pc = "idle"
    /\ ~called
    /\ called' = TRUE
    /\ pc' = "validate"
    /\ f' = SetupLocals
    /\ UNCHANGED << cvol, argv, heap, b, dm, nodes, openers, out, log, ret, deletes, del >>

\* a length test that rejects only keys that are too short
KeyLenRejected_ShortOnly(m, n) ==
    CASE m = CRYPTFS_MODE_INTEGRITY_ENCRYPT -> n < CRYPTO_HEXKEY_LEN + INTEGRITY_HEXKEY_LEN
      [] m = CRYPTFS_MODE_INTEGRITY_ONLY -> n < INTEGRITY_HEXKEY_LEN
      [] OTHER -> FALSE

\* a length test that is strict in every mode
KeyLenRejected_AllModes(m, n) ==
    CASE m = CRYPTFS_MODE_INTEGRITY_ENCRYPT -> n # CRYPTO_HEXKEY_LEN + INTEGRITY_HEXKEY_LEN
      [] m = CRYPTFS_MODE_INTEGRITY_ONLY -> n # INTEGRITY_HEXKEY_LEN
      [] m = CRYPTFS_MODE_AUTHENC -> n # AUTHENC_HEXKEY_LEN
      [] m = CRYPTFS_MODE_ENCRYPT_ONLY -> n # CRYPTO_HEXKEY_LEN
      [] OTHER -> FALSE

\* the switch returns NULL because of the length n of the key: only the two
\* modes with a separate integrity key test it, the other two warn
KeyLenRejected(m, n) ==
    CASE m = CRYPTFS_MODE_INTEGRITY_ENCRYPT -> n # CRYPTO_HEXKEY_LEN + INTEGRITY_HEXKEY_LEN
      [] m = CRYPTFS_MODE_INTEGRITY_ONLY -> n # INTEGRITY_HEXKEY_LEN
      [] OTHER -> FALSE

\* a switch without the passthrough case: every mode proceeds as EncryptOnly
ModeSwitch_NoPassthrough(m, k, meta) ==
    [act |-> "go", crypto_key_len |-> strlen(k), integrity_key_len |-> 0,
     encrypt |-> TRUE, integrity |-> FALSE, stacked |-> FALSE, warn |-> 0]

\* what the switch over the mode decides: "fail", "passthrough" or the settings
\* (warn: the line of the warning about the key length, 0 for none)
ModeSwitch(m, k, meta) ==
    CASE m = CRYPTFS_MODE_NOT_IMPLEMENTED -> [act |-> "passthrough"]
      [] m = CRYPTFS_MODE_AUTHENC ->
            IF meta = NULL \/ KeyLenRejected(m, strlen(k)) THEN [act |-> "fail"]
            ELSE [act |-> "go", crypto_key_len |-> strlen(k), integrity_key_len |-> 0,
                  encrypt |-> TRUE, integrity |-> TRUE, stacked |-> TRUE,
                  warn |-> IF strlen(k) # AUTHENC_HEXKEY_LEN THEN 658 ELSE 0]
      [] m = CRYPTFS_MODE_ENCRYPT_ONLY ->
            IF KeyLenRejected(m, strlen(k)) THEN [act |-> "fail"]
            ELSE [act |-> "go", crypto_key_len |-> strlen(k), integrity_key_len |-> 0,
                  encrypt |-> TRUE, integrity |-> FALSE, stacked |-> FALSE,
                  warn |-> IF strlen(k) # CRYPTO_HEXKEY_LEN THEN 669 ELSE 0]
      [] m = CRYPTFS_MODE_INTEGRITY_ENCRYPT ->
            IF meta = NULL THEN [act |-> "fail"]
            ELSE IF KeyLenRejected(m, strlen(k)) THEN [act |-> "fail"]
            ELSE [act |-> "go", crypto_key_len |-> CRYPTO_HEXKEY_LEN,
                  integrity_key_len |-> INTEGRITY_HEXKEY_LEN,
                  encrypt |-> TRUE, integrity |-> TRUE, stacked |-> FALSE, warn |-> 0]
      [] m = CRYPTFS_MODE_INTEGRITY_ONLY ->
            IF KeyLenRejected(m, strlen(k)) THEN [act |-> "fail"]
            ELSE [act |-> "go", crypto_key_len |-> 0,
                  integrity_key_len |-> INTEGRITY_HEXKEY_LEN,
                  encrypt |-> FALSE, integrity |-> TRUE, stacked |-> FALSE, warn |-> 0]
      [] OTHER -> [act |-> "fail"]

\* parameter validation and the switch over the mode
SetupValidate ==
    /\ pc = "validate"
    /\ IF label = NULL \/ real_blkdev = NULL \/ key = NULL
       THEN Return(NULL) /\ UNCHANGED log
       ELSE LET s == ModeSwitch(mode, heap.key, meta_blkdev)
            IN  CASE s.act = "fail" -> Return(NULL) /\ UNCHANGED log
                  [] s.act = "passthrough" ->
                        /\ Return(real_blkdev)
                        /\ log' = Logged(log, 652, { real_blkdev })
                  [] OTHER ->
                        /\ pc' = "split"
                        /\ f' = [f EXCEPT !.crypto_key_len = s.crypto_key_len,
                                          !.integrity_key_len = s.integrity_key_len,
                                          !.encrypt = s.encrypt,
                                          !.integrity = s.integrity,
                                          !.stacked = s.stacked]
                        /\ log' = IF s.warn # 0 THEN LoggedPlain(log, s.warn) ELSE log
                        /\ UNCHANGED << ret, b >>
    /\ UNCHANGED << cvol, argv, heap, dm, nodes, openers, out, called, deletes, del >>

\* the two private copies of the key material
SplitKey(h, ckl, ikl) ==
    [h EXCEPT
        !.crypto_key =
            IF ckl > 0 THEN [st |-> "live", data |-> mem_strndup(h.key, 0, ckl)] ELSE @,
        !.integrity_key =
            IF ikl > 0 THEN [st |-> "live", data |-> mem_strndup(h.key, ckl, ikl)] ELSE @]

SetupSplitKey ==
    /\ pc = "split"
    /\ heap' = SplitKey(heap, f.crypto_key_len, f.integrity_key_len)
    /\ pc' = "probe"
    /\ UNCHANGED << cvol, argv, f, b, dm, nodes, openers, out, log, ret, called, deletes, del >>

\* size of the volume in sectors
SetupProbeSize ==
    /\ pc = "probe"
    /\ \E openOk \in BOOLEAN :
          IF ~openOk
          THEN /\ pc' = "error"
               /\ log' = Logged(log, 715, { real_blkdev })
               /\ UNCHANGED f
          ELSE IF ~(blk.sector_size > 0)
          THEN /\ pc' = "error"
               /\ UNCHANGED << f, log >>
          ELSE LET fs_size == blk.bytes \div blk.sector_size
               IN  IF fs_size = 0
                   THEN /\ pc' = "error"
                        /\ log' = Logged(log, 729, { real_blkdev })
                        /\ UNCHANGED f
                   ELSE /\ pc' = "integrity"
                        /\ f' = [f EXCEPT !.fs_size = fs_size]
                        /\ UNCHANGED log
    /\ UNCHANGED << cvol, argv, heap, b, dm, nodes, openers, out, ret, called, deletes, del >>

(***************************************************************************)
(* Table descriptors.                                                      *)
(***************************************************************************)
\* snprintf(buf, size, ...): at most size - 1 characters are stored
snprintf(size, s) == IF Len(s) > size - 1 THEN SubSeq(s, 1, size - 1) ELSE s

\* (x + 7) & ~8
AlignNext(x) == LET y == x + 7 IN IF (y \div 8) % 2 = 1 THEN y - 8 ELSE y

\* the parameter string with the two forms of the extra parameters exchanged
IntegrityParams_Swapped(real_blk_name, meta_blk_name, integrity_key_ascii, stacked) ==
    LET extra_params ==
            IF ~stacked THEN "1 meta_device:" \o FmtS(meta_blk_name)
            ELSE "3 meta_device:" \o FmtS(meta_blk_name) \o " internal_hash:"
                     \o INTEGRITY_TYPE \o ":" \o FmtS(integrity_key_ascii)
                     \o " allow_discards"
    IN  snprintf(DM_INTEGRITY_BUF_SIZE - SIZEOF_DM_IOCTL - SIZEOF_DM_TARGET_SPEC,
                 FmtS(real_blk_name) \o " 0 " \o FmtD(INTEGRITY_TAG_SIZE) \o " J "
                     \o extra_params)

\* the parameter string of the integrity target
IntegrityParams(real_blk_name, meta_blk_name, integrity_key_ascii, stacked) ==
    LET extra_params ==
            IF stacked THEN "1 meta_device:" \o FmtS(meta_blk_name)
            ELSE "3 meta_device:" \o FmtS(meta_blk_name) \o " internal_hash:"
                     \o INTEGRITY_TYPE \o ":" \o FmtS(integrity_key_ascii)
                     \o " allow_discards"
    IN  snprintf(DM_INTEGRITY_BUF_SIZE - SIZEOF_DM_IOCTL - SIZEOF_DM_TARGET_SPEC,
                 FmtS(real_blk_name) \o " 0 " \o FmtD(INTEGRITY_TAG_SIZE) \o " J "
                     \o extra_params)

\* the target the integrity table loader hands to DM_TABLE_LOAD
IntegrityTarget(real_blk_name, meta_blk_name, integrity_key_ascii, fs_size, stacked) ==
    LET params == IntegrityParams(real_blk_name, meta_blk_name, integrity_key_ascii, stacked)
    IN  [target_type |-> "integrity", sector_start |-> 0, length |-> fs_size,
         params |-> params,
         next |-> AlignNext(SIZEOF_DM_IOCTL + SIZEOF_DM_TARGET_SPEC + Len(params) + 1),
         deps |-> { FmtS(real_blk_name), FmtS(meta_blk_name) }]

\* the value the superblock probe returns
get_provided_data_sectors(real_blk_name, sb) ==
    IF real_blk_name = NULL THEN 0
    ELSE IF sb.bytes < 8 THEN 0
    ELSE IF sb.magic # "integrt" THEN 1
    ELSE IF sb.bytes < 24 THEN 0
    ELSE sb.pds

\* the string arguments the probe logs
ProbeLogged(l, real_blk_name, sb) ==
    IF real_blk_name = NULL THEN Logged(l, 547, { real_blk_name })
    ELSE IF sb.bytes < 8
    THEN Logged(Logged(l, 552, { sb.magic }), 554, { real_blk_name })
    ELSE IF sb.magic # "integrt"
    THEN Logged(Logged(l, 552, { sb.magic }), 558, { real_blk_name })
    ELSE IF sb.bytes < 24 \/ sb.pds = 0
    THEN Logged(Logged(l, 552, { sb.magic }), 569, { real_blk_name })
    ELSE Logged(l, 552, { sb.magic })

\* the pointer to a split copy as a C string (NULL when the copy was not made)
KeyPtr(k) == IF k.st = "live" THEN CStr(k.data) ELSE NULL

(***************************************************************************)
(* create_integrity_blk_dev and load_integrity_mapping_table               *)
(***************************************************************************)
\* the integrity stage of setup: probe the meta device, enter the builder
SetupIntegrity ==
    /\ pc = "integrity"
    /\ IF f.integrity
       THEN /\ f' = [f EXCEPT !.integrity_dev_label = IntegrityLabel(label),
                              !.initial_format =
                                  (get_provided_data_sectors(meta_blkdev, metaSb) # f.fs_size)]
            /\ log' = ProbeLogged(Logged(log, 736, { IntegrityLabel(label) }),
                                  meta_blkdev, metaSb)
            /\ b' = [fn |-> "create_integrity_blk_dev", real_blk_name |-> real_blkdev,
                     meta_blk_name |-> meta_blkdev, key |-> KeyPtr(heap.integrity_key),
                     name |-> IntegrityLabel(label), fs_size |-> f.fs_size,
                     stacked |-> f.stacked, counter |-> 0]
            /\ pc' = "int_open"
       ELSE /\ pc' = "encrypt"
            /\ UNCHANGED << f, b, log >>
    /\ UNCHANGED << cvol, argv, heap, dm, nodes, openers, out, ret, called, deletes, del >>

\* the builder failed: setup logs and jumps to its error label
IntegrityFailed ==
    /\ pc' = "error"
    /\ b' = NoFrame
    /\ UNCHANGED f

\* open(DM_CONTROL)
IntegrityOpen ==
    /\ pc = "int_open"
    /\ \E ok \in BOOLEAN :
          IF ok
          THEN pc' = "int_create" /\ UNCHANGED << f, b, log >>
          ELSE IntegrityFailed /\ log' = Logged(log, 744, { f.integrity_dev_label })
    /\ UNCHANGED << cvol, argv, heap, dm, nodes, openers, out, ret, called, deletes, del >>

\* one pass of the DM_DEV_CREATE loop
IntegrityCreate ==
    /\ pc = "int_create"
    /\ b.counter < TABLE_LOAD_RETRIES
    /\ \E ok \in BOOLEAN :
          IF ok /\ DmCreateOk(dm, b.name)
          THEN /\ dm' = DmCreate(dm, b.name)
               /\ pc' = "int_load"
               /\ b' = [b EXCEPT !.counter = 0]
               /\ UNCHANGED << f, log >>
          ELSE /\ UNCHANGED dm
               /\ IF b.counter + 1 >= TABLE_LOAD_RETRIES
                  THEN /\ IntegrityFailed
                       /\ log' = Logged(log, 744, { f.integrity_dev_label })
                  ELSE /\ b' = [b EXCEPT !.counter = @ + 1]
                       /\ UNCHANGED << pc, f, log >>
    /\ UNCHANGED << cvol, argv, heap, nodes, openers, out, ret, called, deletes, del >>

\* load_integrity_mapping_table up to its loop: the key check and the descriptor
IntegrityLoadTable ==
    /\ pc = "int_load"
    /\ IF ~b.stacked /\ b.key = NULL
       THEN /\ IntegrityFailed
            /\ log' = Logged(log, 744, { f.integrity_dev_label })
       ELSE /\ b' = [fn |-> b.fn, name |-> b.name, meta_blk_name |-> b.meta_blk_name,
                     counter |-> 0,
                     tgt |-> IntegrityTarget(b.real_blk_name, b.meta_blk_name, b.key,
                                             b.fs_size, b.stacked)]
            /\ pc' = "int_load_loop"
            /\ UNCHANGED << f, log >>
    /\ UNCHANGED << cvol, argv, heap, dm, nodes, openers, out, ret, called, deletes, del >>

\* the value load_integrity_mapping_table returns when its loop ends at mapping_counter
IntegrityLoadCount_FromZero(mapping_counter) ==
    IF mapping_counter >= TABLE_LOAD_RETRIES THEN -1 ELSE mapping_counter
IntegrityLoadCount(mapping_counter) ==
    IF mapping_counter >= TABLE_LOAD_RETRIES THEN -1 ELSE mapping_counter + 1

\* one pass of the DM_TABLE_LOAD loop
IntegrityLoadRetry ==
    /\ pc = "int_load_loop"
    /\ b.counter < TABLE_LOAD_RETRIES
    /\ \E ok \in BOOLEAN :
          IF ok /\ DmLoadOk(dm, nodes, b.name, b.tgt)
          THEN /\ dm' = DmLoad(dm, b.name, b.tgt)
               /\ pc' = "int_resume"
               /\ b' = [fn |-> b.fn, name |-> b.name,
                        load_count |-> IntegrityLoadCount(b.counter)]
               /\ UNCHANGED << f, log >>
          ELSE /\ UNCHANGED dm
               /\ IF IntegrityLoadCount(b.counter + 1) < 0
                  THEN /\ IntegrityFailed
                       /\ log' = Logged(log, 744, { f.integrity_dev_label })
                  ELSE /\ b' = [b EXCEPT !.counter = @ + 1]
                       /\ UNCHANGED << pc, f, log >>
    /\ UNCHANGED << cvol, argv, heap, nodes, openers, out, ret, called, deletes, del >>

\* DM_DEV_SUSPEND: resume the device
IntegrityResume ==
    /\ pc = "int_resume"
    /\ \E ok \in BOOLEAN :
          IF ok /\ DmResumeOk(dm, b.name)
          THEN /\ dm' = DmResume(dm, b.name)
               /\ pc' = "int_node"
               /\ UNCHANGED << f, b, log >>
          ELSE /\ IntegrityFailed
               /\ log' = Logged(log, 744, { f.integrity_dev_label })
               /\ UNCHANGED dm
    /\ UNCHANGED << cvol, argv, heap, nodes, openers, out, ret, called, deletes, del >>

\* create_device_node: "ok", a failure before mknod, or a failing mknod
NodeOutcomes == { "ok", "fail", "mknod" }
create_device_node(d, name, r) ==
    IF r = "ok" /\ DmExists(d, name) THEN cryptfs_get_device_path_new(name) ELSE NULL

NodeLogged(l, nd, name, r) ==
    IF r = "mknod" THEN Logged(l, 280, { cryptfs_get_device_path_new(name) })
    ELSE IF r = "ok" /\ cryptfs_get_device_path_new(name) \in nd
    THEN Logged(l, 283, { cryptfs_get_device_path_new(name) })
    ELSE l

\* the device node of the integrity device; the builder returns
IntegrityNode ==
    /\ pc = "int_node"
    /\ \E r \in NodeOutcomes :
          LET dev == create_device_node(dm, b.name, r)
          IN  IF dev # NULL
              THEN /\ nodes' = nodes \cup { dev }
                   /\ f' = [f EXCEPT !.integrity_blkdev = dev]
                   /\ b' = NoFrame
                   /\ pc' = "encrypt"
                   /\ log' = NodeLogged(log, nodes, b.name, r)
              ELSE /\ IntegrityFailed
                   /\ log' = Logged(NodeLogged(log, nodes, b.name, r), 744,
                                    { f.integrity_dev_label })
                   /\ UNCHANGED nodes
    /\ UNCHANGED << cvol, argv, heap, dm, openers, out, ret, called, deletes, del >>

(***************************************************************************)
(* create_crypto_blk_dev and load_crypto_mapping_table                     *)
(***************************************************************************)
\* the parameter string of the crypt target
CryptoParams(real_blk_name, master_key_ascii, integrity) ==
    LET extra_params ==
            IF integrity THEN "1 integrity:" \o FmtD(INTEGRITY_TAG_SIZE) \o ":aead"
            ELSE "1 allow_discards"
        crypto_type == IF integrity THEN CRYPTO_TYPE_AUTHENC ELSE CRYPTO_TYPE
    IN  snprintf(DM_CRYPT_BUF_SIZE - SIZEOF_DM_IOCTL - SIZEOF_DM_TARGET_SPEC,
                 crypto_type \o " " \o FmtS(master_key_ascii) \o " 0 "
                     \o FmtS(real_blk_name) \o " 0 " \o extra_params)

\* the target the crypt table loader hands to DM_TABLE_LOAD
CryptoTarget(real_blk_name, master_key_ascii, fs_size, integrity) ==
    LET params == CryptoParams(real_blk_name, master_key_ascii, integrity)
    IN  [target_type |-> "crypt", sector_start |-> 0, length |-> fs_size,
         params |-> params,
         next |-> AlignNext(SIZEOF_DM_IOCTL + SIZEOF_DM_TARGET_SPEC + Len(params) + 1),
         deps |-> { FmtS(real_blk_name) }]

\* the device the crypt target is built over
CryptoBacking(meta, integrity_blkdev, real) == IF meta # NULL THEN integrity_blkdev ELSE real

\* the integrity flag of setup handed on in place of the stacked flag
CryptoFlag_Integrity(fr) == fr.integrity

\* the flag setup hands to the crypt builder as its integrity parameter
CryptoFlag(fr) == fr.stacked

\* the encryption stage of setup: enter the crypt builder, or alias the integrity device
SetupEncrypt ==
    /\ pc = "encrypt"
    /\ IF f.encrypt
       THEN /\ b' = [fn |-> "create_crypto_blk_dev",
                     real_blk_name |-> CryptoBacking(meta_blkdev, f.integrity_blkdev,
                                                     real_blkdev),
                     master_key |-> KeyPtr(heap.crypto_key), name |-> label,
                     fs_size |-> f.fs_size, integrity |-> CryptoFlag(f), counter |-> 0]
            /\ pc' = "cry_open"
            /\ UNCHANGED f
       ELSE /\ f' = [f EXCEPT !.crypto_blkdev = f.integrity_blkdev]
            /\ pc' = "format"
            /\ UNCHANGED b
    /\ UNCHANGED << cvol, argv, heap, dm, nodes, openers, out, log, ret, called, deletes, del >>

\* the builder failed: it logs the name, setup jumps to its error label
CryptoFailed ==
    /\ pc' = "error"
    /\ b' = NoFrame
    /\ UNCHANGED f

\* open(DM_CONTROL)
CryptoOpen ==
    /\ pc = "cry_open"
    /\ \E ok \in BOOLEAN :
          IF ok
          THEN pc' = "cry_create" /\ UNCHANGED << f, b, log >>
          ELSE CryptoFailed /\ log' = Logged(log, 450, { b.name })
    /\ UNCHANGED << cvol, argv, heap, dm, nodes, openers, out, ret, called, deletes, del >>

\* one pass of the DM_DEV_CREATE loop
CryptoCreate ==
    /\ pc = "cry_create"
    /\ b.counter < TABLE_LOAD_RETRIES
    /\ \E ok \in BOOLEAN :
          IF ok /\ DmCreateOk(dm, b.name)
          THEN /\ dm' = DmCreate(dm, b.name)
               /\ pc' = "cry_load"
               /\ b' = [b EXCEPT !.counter = 0]
               /\ UNCHANGED << f, log >>
          ELSE /\ UNCHANGED dm
               /\ IF b.counter + 1 = TABLE_LOAD_RETRIES
                  THEN /\ CryptoFailed
                       /\ log' = Logged(log, 450, { b.name })
                  ELSE /\ b' = [b EXCEPT !.counter = @ + 1]
                       /\ UNCHANGED << pc, f, log >>
    /\ UNCHANGED << cvol, argv, heap, nodes, openers, out, ret, called, deletes, del >>

\* the string arguments of the TRACE at the head of load_crypto_mapping_table
CryptoTraceArgs(real_blk_name, crypto_type, master_key_ascii, name) ==
    { real_blk_name, crypto_type, master_key_ascii, name }

\* load_crypto_mapping_table up to its loop: the trace and the descriptor
CryptoLoadTable ==
    /\ pc = "cry_load"
    /\ log' = Logged(log, 204,
                     CryptoTraceArgs(b.real_blk_name,
                                     IF b.integrity THEN CRYPTO_TYPE_AUTHENC ELSE CRYPTO_TYPE,
                                     b.master_key, b.name))
    /\ b' = [fn |-> b.fn, name |-> b.name, real_blk_name |-> b.real_blk_name, counter |-> 0,
             tgt |-> CryptoTarget(b.real_blk_name, b.master_key, b.fs_size, b.integrity)]
    /\ pc' = "cry_load_loop"
    /\ UNCHANGED << cvol, argv, heap, f, dm, nodes, openers, out, ret, called, deletes, del >>

\* the value load_crypto_mapping_table returns when its loop ends at i
CryptoLoadCount(i) == IF i = TABLE_LOAD_RETRIES THEN -1 ELSE i + 1

\* one pass of the DM_TABLE_LOAD loop
CryptoLoadRetry ==
    /\ pc = "cry_load_loop"
    /\ b.counter < TABLE_LOAD_RETRIES
    /\ \E ok \in BOOLEAN :
          IF ok /\ DmLoadOk(dm, nodes, b.name, b.tgt)
          THEN /\ dm' = DmLoad(dm, b.name, b.tgt)
               /\ pc' = "cry_resume"
               /\ b' = [fn |-> b.fn, name |-> b.name,
                        load_count |-> CryptoLoadCount(b.counter)]
               /\ UNCHANGED << f, log >>
          ELSE /\ UNCHANGED dm
               /\ IF CryptoLoadCount(b.counter + 1) < 0
                  THEN /\ CryptoFailed
                       /\ log' = Logged(log, 450, { b.name })
                  ELSE /\ b' = [b EXCEPT !.counter = @ + 1]
                       /\ UNCHANGED << pc, f, log >>
    /\ UNCHANGED << cvol, argv, heap, nodes, openers, out, ret, called, deletes, del >>

\* DM_DEV_SUSPEND: resume the device
CryptoResume ==
    /\ pc = "cry_resume"
    /\ \E ok \in BOOLEAN :
          IF ok /\ DmResumeOk(dm, b.name)
          THEN /\ dm' = DmResume(dm, b.name)
               /\ pc' = "cry_node"
               /\ UNCHANGED << f, b, log >>
          ELSE /\ CryptoFailed
               /\ log' = Logged(log, 450, { b.name })
               /\ UNCHANGED dm
    /\ UNCHANGED << cvol, argv, heap, nodes, openers, out, ret, called, deletes, del >>

\* the device node of the crypt device; the builder returns
CryptoNode ==
    /\ pc = "cry_node"
    /\ \E r \in NodeOutcomes :
          LET dev == create_device_node(dm, b.name, r)
          IN  IF dev # NULL
              THEN /\ nodes' = nodes \cup { dev }
                   /\ f' = [f EXCEPT !.crypto_blkdev = dev]
                   /\ b' = NoFrame
                   /\ pc' = "format"
                   /\ log' = NodeLogged(log, nodes, b.name, r)
              ELSE /\ CryptoFailed
                   /\ log' = Logged(NodeLogged(log, nodes, b.name, r), 450, { b.name })
                   /\ UNCHANGED nodes
    /\ UNCHANGED << cvol, argv, heap, dm, openers, out, ret, called, deletes, del >>

(***************************************************************************)
(* First-use initialization: cryptfs_write_zeros and the fallback loop     *)
(***************************************************************************)
Min(x, y) == IF x < y THEN x ELSE y
Max(x, y) == IF x > y THEN x ELSE y

\* the format stage of setup
SetupFormat ==
    /\ pc = "format"
    /\ IF f.initial_format
       THEN /\ log' = Logged(log, 767, { f.crypto_blkdev, f.integrity_blkdev })
            /\ pc' = "wz_begin"
       ELSE /\ pc' = "success"
            /\ UNCHANGED log
    /\ UNCHANGED << cvol, argv, heap, f, b, dm, nodes, openers, out, ret, called, deletes, del >>

\* cryptfs_write_zeros failed: setup warns and falls back to the O_DIRECT loop
WriteZerosFailed ==
    /\ pc' = "fb_open"
    /\ b' = NoFrame

\* cryptfs_write_zeros: the buffer and the descriptor
WriteZerosBegin ==
    /\ pc = "wz_begin"
    /\ \E callocOk \in BOOLEAN, openOk \in BOOLEAN :
          IF f.crypto_blkdev = NULL \/ ~callocOk
          THEN /\ WriteZerosFailed
               /\ log' = Logged(log, 772, { f.crypto_blkdev })
          ELSE IF ~(openOk /\ BlkExists(dm, nodes, f.crypto_blkdev))
          THEN /\ WriteZerosFailed
               /\ log' = Logged(Logged(log, 594, { f.crypto_blkdev }), 772,
                                { f.crypto_blkdev })
          ELSE /\ b' = [fn |-> "cryptfs_write_zeros", size |-> f.fs_size * 512,
                        written |-> 0]
               /\ pc' = IF f.fs_size * 512 > 0 THEN "wz_loop" ELSE "wz_sync"
               /\ UNCHANGED log
    /\ UNCHANGED << cvol, argv, heap, f, dm, nodes, openers, out, ret, called, deletes, del >>

\* one pass of the write loop
WriteZerosLoop ==
    /\ pc = "wz_loop"
    /\ 0 < b.size - b.written
    /\ LET towrite == Min(b.size - b.written, ZERO_BUF_SIZE)
       IN  \E ok \in BOOLEAN :
              IF ok
              THEN /\ b' = [b EXCEPT !.written = @ + towrite]
                   /\ out' = [out EXCEPT !.zeroed = Max(@, b.written + towrite),
                                         !.synced = FALSE]
                   /\ pc' = IF 0 < b.size - (b.written + towrite) THEN "wz_loop"
                            ELSE "wz_sync"
                   /\ UNCHANGED log
              ELSE /\ WriteZerosFailed
                   /\ log' = Logged(log, 772, { f.crypto_blkdev })
                   /\ UNCHANGED out
    /\ UNCHANGED << cvol, argv, heap, f, dm, nodes, openers, ret, called, deletes, del >>

\* fsync of the outer device
WriteZerosSync ==
    /\ pc = "wz_sync"
    /\ \E ok \in BOOLEAN :
          IF ok
          THEN /\ out' = [out EXCEPT !.synced = TRUE]
               /\ log' = Logged(Logged(log, 610, { f.crypto_blkdev }), 615,
                                { f.crypto_blkdev })
               /\ pc' = "success"
               /\ b' = NoFrame
          ELSE /\ WriteZerosFailed
               /\ log' = Logged(Logged(log, 610, { f.crypto_blkdev }), 772,
                                { f.crypto_blkdev })
               /\ UNCHANGED out
    /\ UNCHANGED << cvol, argv, heap, f, dm, nodes, openers, ret, called, deletes, del >>

\* the fallback: open the outer device with O_DIRECT
FallbackOpen ==
    /\ pc = "fb_open"
    /\ \E ok \in BOOLEAN :
          IF ok /\ BlkExists(dm, nodes, f.crypto_blkdev)
          THEN /\ b' = [fn |-> "fallback", i |-> 0]
               /\ pc' = IF 0 < f.fs_size \div 8 THEN "fb_loop" ELSE "fb_done"
               /\ UNCHANGED log
          ELSE /\ pc' = "error"
               /\ log' = Logged(log, 777, { f.crypto_blkdev })
               /\ UNCHANGED b
    /\ UNCHANGED << cvol, argv, heap, f, dm, nodes, openers, out, ret, called, deletes, del >>

\* one pass of the fallback loop: a block of DM_INTEGRITY_BUF_SIZE zero bytes
FallbackLoop ==
    /\ pc = "fb_loop"
    /\ b.i < f.fs_size \div 8
    /\ \E ok \in BOOLEAN :
          IF ok
          THEN /\ out' = [out EXCEPT !.zeroed = Max(@, (b.i + 1) * DM_INTEGRITY_BUF_SIZE),
                                     !.synced = FALSE]
               /\ b' = [b EXCEPT !.i = @ + 1]
               /\ pc' = IF b.i + 1 < f.fs_size \div 8 THEN "fb_loop" ELSE "fb_done"
               /\ UNCHANGED log
          ELSE /\ pc' = "error"
               /\ b' = NoFrame
               /\ log' = Logged(log, 785, { f.crypto_blkdev })
               /\ UNCHANGED out
    /\ UNCHANGED << cvol, argv, heap, f, dm, nodes, openers, ret, called, deletes, del >>

\* the fallback closes the descriptor and logs
FallbackDone ==
    /\ pc = "fb_done"
    /\ log' = Logged(log, 793, { f.crypto_blkdev })
    /\ b' = NoFrame
    /\ pc' = "success"
    /\ UNCHANGED << cvol, argv, heap, f, dm, nodes, openers, out, ret, called, deletes, del >>

(***************************************************************************)
(* The two exits of setup, and the removal of devices                      *)
(***************************************************************************)
\* mem_memset0(k, len); mem_free0(k): the allocation as it is when released
ZeroFree(k, len) ==
    IF k.st = "live" THEN [st |-> "freed", data |-> mem_memset0(k.data, len)] ELSE k

\* the two lengths exchanged between the two copies
ReleaseKeys_SwappedLengths(h, ckl, ikl) ==
    [h EXCEPT !.crypto_key = ZeroFree(@, ikl), !.integrity_key = ZeroFree(@, ckl)]

\* both key copies are zeroed and released
ReleaseKeys(h, ckl, ikl) ==
    [h EXCEPT !.crypto_key = ZeroFree(@, ckl), !.integrity_key = ZeroFree(@, ikl)]

\* the successful exit
SetupSuccess ==
    /\ pc = "success"
    /\ heap' = ReleaseKeys(heap, f.crypto_key_len, f.integrity_key_len)
    /\ Return(f.crypto_blkdev)
    /\ UNCHANGED << cvol, argv, dm, nodes, openers, out, log, called, deletes, del >>

\* errno values handed back negated
Errno_Negated(e) == IF e = "ENXIO" THEN -6 ELSE -16

\* errno values as the int a function returns
Errno(e) == IF e = "ENXIO" THEN 6 ELSE 16

\* the kernel state a removal works on, with what the removals did so far:
\* ret the value returned, tried the names handed to DM_DEV_REMOVE in order,
\* openfail whether an open of the control device failed
KernelState(d, nd, l) ==
    [dm |-> d, nodes |-> nd, log |-> l, ret |-> 0, tried |-> << >>, openfail |-> FALSE]

\* DM_DEV_REMOVE of one name and the unlink of its node, on the kernel state k;
\* lineErr and lineOk are the two log statements
RemoveDev(k, op, name, opened, lineErr, lineOk) ==
    IF ~opened THEN [k EXCEPT !.ret = -1, !.openfail = TRUE]
    ELSE LET e == DmRemoveErrno(k.dm, op, name)
         IN  IF e # "OK"
             THEN [k EXCEPT
                     !.log = IF e # "ENXIO" THEN Logged(k.log, lineErr, { name }) ELSE k.log,
                     !.ret = Errno(e),
                     !.tried = Append(@, name)]
             ELSE [k EXCEPT
                     !.dm = DmRemove(k.dm, name),
                     !.nodes = k.nodes \ { cryptfs_get_device_path_new(name) },
                     !.log = Logged(k.log, lineOk, { name }),
                     !.ret = 0,
                     !.tried = Append(@, name)]

\* delete_integrity_blk_dev(name); opened: open(DM_CONTROL) worked
delete_integrity_blk_dev(k, op, name, opened) == RemoveDev(k, op, name, opened, 475, 483)

\* delete_crypto_blk_dev(fd, name); opened: fd is valid, or open(DM_CONTROL) worked
delete_crypto_blk_dev(k, op, name, opened) == RemoveDev(k, op, name, opened, 518, 527)

\* the name the error exit hands to delete_integrity_blk_dev
RollbackIntegrityName(l) == l

\* the kernel state after the removals of the error exit
Rollback(k, op, l, integrity_blkdev, crypto_blkdev, opened1, opened2) ==
    LET k1 == IF integrity_blkdev # NULL
              THEN delete_integrity_blk_dev(k, op, RollbackIntegrityName(l), opened1)
              ELSE k
    IN  IF crypto_blkdev # NULL THEN delete_crypto_blk_dev(k1, op, l, opened2) ELSE k1

\* the error exit; when the outer path aliases the integrity path it is released
\* twice, after which the process either goes on or is aborted by the allocator
SetupError ==
    /\ pc = "error"
    /\ heap' = ReleaseKeys(heap, f.crypto_key_len, f.integrity_key_len)
    /\ \E opened1 \in BOOLEAN, opened2 \in BOOLEAN :
          LET k == Rollback(KernelState(dm, nodes, log), openers, label,
                            f.integrity_blkdev, f.crypto_blkdev, opened1, opened2)
          IN  /\ dm' = k.dm
              /\ nodes' = k.nodes
              /\ log' = k.log
    /\ \/ Return(NULL)
       \/ /\ f.crypto_blkdev # NULL
          /\ f.crypto_blkdev = f.integrity_blkdev
          /\ pc' = "aborted"
          /\ UNCHANGED << f, b, ret >>
    /\ UNCHANGED << cvol, argv, openers, out, called, deletes, del >>

(***************************************************************************)
(* cryptfs_delete_blk_dev and the user of the volume                       *)
(***************************************************************************)
\* a switch that forgets the integrity device of the two-device modes
DeleteSwitch_SkipIntegrity(m) ==
    CASE m \in { CRYPTFS_MODE_AUTHENC, CRYPTFS_MODE_INTEGRITY_ENCRYPT,
                 CRYPTFS_MODE_ENCRYPT_ONLY } ->
            [ok |-> TRUE, encrypt |-> TRUE, integrity |-> FALSE]
      [] m = CRYPTFS_MODE_INTEGRITY_ONLY -> [ok |-> TRUE, encrypt |-> FALSE, integrity |-> TRUE]
      [] OTHER -> [ok |-> FALSE, encrypt |-> FALSE, integrity |-> FALSE]

\* the switch over the mode: which devices the function removes
DeleteSwitch(m) ==
    CASE m \in { CRYPTFS_MODE_AUTHENC, CRYPTFS_MODE_INTEGRITY_ENCRYPT } ->
            [ok |-> TRUE, encrypt |-> TRUE, integrity |-> TRUE]
      [] m = CRYPTFS_MODE_ENCRYPT_ONLY -> [ok |-> TRUE, encrypt |-> TRUE, integrity |-> FALSE]
      [] m = CRYPTFS_MODE_INTEGRITY_ONLY -> [ok |-> TRUE, encrypt |-> FALSE, integrity |-> TRUE]
      [] OTHER -> [ok |-> FALSE, encrypt |-> FALSE, integrity |-> FALSE]

\* cryptfs_delete_blk_dev(fd, name, mode) on the kernel state k: the crypt device
\* first, then the integrity device; only a negative result of a removal fails
cryptfs_delete_blk_dev(k, op, fd, name, m, opened1, opened2) ==
    LET s == DeleteSwitch(m)
    IN  IF ~s.ok THEN [k EXCEPT !.ret = -1]
        ELSE LET k1 == IF s.encrypt
                       THEN delete_crypto_blk_dev(k, op, name,
                                                  IF fd = -1 THEN opened1 ELSE fd >= 0)
                       ELSE [k EXCEPT !.ret = 0]
             IN  IF k1.ret < 0 THEN [k1 EXCEPT !.log = Logged(@, 861, { name }), !.ret = -1]
                 ELSE LET k2 == IF s.integrity
                                THEN delete_integrity_blk_dev(k1, op, IntegrityLabel(name),
                                                              opened2)
                                ELSE [k1 EXCEPT !.ret = 0]
                      IN  IF k2.ret < 0
                          THEN [k2 EXCEPT !.log = Logged(@, 869, { IntegrityLabel(name) }),
                                          !.ret = -1]
                          ELSE [k2 EXCEPT !.ret = 0]

\* the caller removes the volume it had set up (or had tried to)
DeleteBlkDev ==
    /\ pc = "idle"
    /\ called
    /\ deletes < MaxDeletes
    /\ \E fd \in { -1, 3 }, opened1 \in BOOLEAN, opened2 \in BOOLEAN :
          LET k == cryptfs_delete_blk_dev(KernelState(dm, nodes, log), openers, fd, label,
                                          mode, opened1, opened2)
          IN  /\ dm' = k.dm
              /\ nodes' = k.nodes
              /\ log' = k.log
              /\ del' = [ret |-> k.ret, held |-> openers # {}, before |-> DOMAIN dm,
                          tried |-> k.tried, openfail |-> k.openfail]
    /\ deletes' = deletes + 1
    /\ UNCHANGED << cvol, argv, pc, heap, f, b, openers, out, ret, called >>

\* a user (a mount) opens the device setup returned
HoldOpen ==
    /\ pc = "idle"
    /\ ret \notin { "none", NULL }
    /\ ret \notin openers
    /\ \E n \in DOMAIN dm : ret = cryptfs_get_device_path_new(n) /\ ret \in nodes
    /\ openers' = openers \cup { ret }
    /\ UNCHANGED << cvol, argv, pc, heap, f, b, dm, nodes, out, log, ret, called, deletes, del >>

\* the user closes it
Release ==
    /\ pc = "idle"
    /\ openers # {}
    /\ openers' = {}
    /\ UNCHANGED << cvol, argv, pc, heap, f, b, dm, nodes, out, log, ret, called, deletes, del >>

Next ==
    \/ CallSetup
    \/ SetupValidate
    \/ SetupSplitKey
    \/ SetupProbeSize
    \/ SetupIntegrity
    \/ IntegrityOpen
    \/ IntegrityCreate
    \/ IntegrityLoadTable
    \/ IntegrityLoadRetry
    \/ IntegrityResume
    \/ IntegrityNode
    \/ SetupEncrypt
    \/ CryptoOpen
    \/ CryptoCreate
    \/ CryptoLoadTable
    \/ CryptoLoadRetry
    \/ CryptoResume
    \/ CryptoNode
    \/ SetupFormat
    \/ WriteZerosBegin
    \/ WriteZerosLoop
    \/ WriteZerosSync
    \/ FallbackOpen
    \/ FallbackLoop
    \/ FallbackDone
    \/ SetupSuccess
    \/ SetupError
    \/ DeleteBlkDev
    \/ HoldOpen
    \/ Release

Spec == Init /\ [][Next]_vars

(***************************************************************************)
(* The way of the sector count into the table descriptor. A 64-bit value   *)
(* is written as four 16-bit limbs, least significant first.               *)
(***************************************************************************)
Limb == 2^16

\* uint64_t / int for a positive divisor of at most 2^12
U64Div(x, d) ==
    LET t3 == (x[4] % d) * Limb + x[3]
        t2 == (t3 % d) * Limb + x[2]
        t1 == (t2 % d) * Limb + x[1]
    IN  << t1 \div d, t2 \div d, t3 \div d, x[4] \div d >>

\* tgt->length = fs_size: the parameter `int fs_size` keeps the low 32 bits of the
\* caller's count as a signed value, the assignment to the __u64 field extends its sign
tgt_length(fs_size) ==
    LET sign == IF fs_size[2] >= Limb \div 2 THEN Limb - 1 ELSE 0
    IN  << fs_size[1], fs_size[2], sign, sign >>

\* data devices from 0 bytes to 2^49 + 2^32 - 2^16 + 5120 bytes
BlkDevices64 ==
    { [bytes |-> << l0, l1, l2, l3 >>, sector_size |-> ss] :
        l0 \in { 0, 4096, 5120 }, l1 \in { 0, 1, Limb - 1 }, l2 \in { 0, 255, 256, 2048 },
        l3 \in { 0, 1 }, ss \in { 512, 4096 } }

\* a call on a device of any size, at the size probe
LenInit ==
    /\ pc = "probe64"
    /\ label = LABEL
    /\ real_blkdev = DATA_DEV
    /\ key = "key"
    /\ meta_blkdev = META_DEV
    /\ mode = CRYPTFS_MODE_AUTHENC
    /\ blk \in BlkDevices64
    /\ metaSb = [bytes |-> 0, magic |-> "", pds |-> 0]
    /\ heap = << >>
    /\ f = NoFrame
    /\ b = NoFrame
    /\ dm = << >>
    /\ nodes = {}
    /\ openers = {}
    /\ out = [zeroed |-> 0, synced |-> FALSE]
    /\ log = {}
    /\ ret = "none"
    /\ called = TRUE
    /\ deletes = 0
    /\ del = [ret |-> 0, held |-> FALSE, before |-> {}, tried |-> << >>, openfail |-> FALSE]
    /\ VolOff

\* the size probe of cryptfs_setup_volume_new and the head of a table loader
LenLoadTable ==
    /\ pc = "probe64"
    /\ LET fs_size == U64Div(blk.bytes, blk.sector_size)
       IN  IF fs_size = << 0, 0, 0, 0 >>
           THEN pc' = "error" /\ UNCHANGED b
           ELSE /\ pc' = "loaded64"
                /\ \E fn \in { "load_integrity_mapping_table", "load_crypto_mapping_table" } :
                      b' = [fn |-> fn,
                            tgt |-> [sector_start |-> 0, length |-> tgt_length(fs_size)]]
    /\ UNCHANGED << cvol, argv, heap, f, dm, nodes, openers, out, log, ret, called, deletes,
                    del >>

LenSpec == LenInit /\ [][LenLoadTable]_vars

(***************************************************************************)
(* c_vol.c: the container's mounts.  The environment.                      *)
(***************************************************************************)
MOUNT_TYPE_SHARED == "MOUNT_TYPE_SHARED"
MOUNT_TYPE_EMPTY == "MOUNT_TYPE_EMPTY"
MOUNT_TYPE_BIND_FILE == "MOUNT_TYPE_BIND_FILE"
MOUNT_TYPE_BIND_DIR == "MOUNT_TYPE_BIND_DIR"
MOUNT_TYPE_BIND_DIR_RW == "MOUNT_TYPE_BIND_DIR_RW"
MOUNT_TYPE_FLASH == "MOUNT_TYPE_FLASH"

\* uuid_string(container_get_uuid(vol->container))
uuid_string == "c0"

\* mount entries (directories are paths relative to the root, "/" is << >>)
E_root == [img |-> "root", dir |-> << >>, type |-> MOUNT_TYPE_SHARED, encrypted |-> FALSE]
E_data ==
    [img |-> "data", dir |-> << "data" >>, type |-> MOUNT_TYPE_EMPTY, encrypted |-> TRUE]
E_hosts ==
    [img |-> "hosts", dir |-> << "etc", "hosts" >>, type |-> MOUNT_TYPE_BIND_FILE,
     encrypted |-> FALSE]
E_modules ==
    [img |-> "/lib/modules", dir |-> << "lib", "modules" >>, type |-> MOUNT_TYPE_BIND_DIR,
     encrypted |-> FALSE]
S_root == [img |-> "setup", dir |-> << >>, type |-> MOUNT_TYPE_SHARED, encrypted |-> FALSE]

Pool ==
    << E_root, E_data, E_hosts, E_modules,
       [img |-> "cache", dir |-> << "cache" >>, type |-> MOUNT_TYPE_EMPTY, encrypted |-> FALSE],
       [img |-> "boot", dir |-> << "boot" >>, type |-> MOUNT_TYPE_FLASH, encrypted |-> FALSE],
       [img |-> "/lib/firmware", dir |-> << "lib", "firmware" >>,
        type |-> MOUNT_TYPE_BIND_DIR_RW, encrypted |-> FALSE] >>

\* the entries of Pool with an index in I, from index k on, in the order of Pool
RECURSIVE Pick(_, _)
Pick(I, k) ==
    IF k > Len(Pool) THEN << >>
    ELSE (IF k \in I THEN << Pool[k] >> ELSE << >>) \o Pick(I, k + 1)

\* the mount sets a guest OS declares: at most MaxEntries entries
MntSets ==
    { Pick(I, 1) : I \in { J \in SUBSET (1..Len(Pool)) :
                             J # {} /\ Cardinality(J) <= MaxEntries } }

\* the set of elements of a sequence
Range(s) == { s[i] : i \in 1..Len(s) }

\* the containers the model starts: every combination of marker, prior images
\* and c0 with the smallest mount set; every mount set with the combinations
\* that select the three modes
Containers ==
    { c \in [mnt : MntSets, setup_mode : BOOLEAN, userns : BOOLEAN, is_c0 : BOOLEAN,
             not_stacked : BOOLEAN, images : BOOLEAN, fresh_meta : BOOLEAN,
             has_key : BOOLEAN, store : BOOLEAN] :
        /\ c.store =>
              /\ E_hosts \in Range(c.mnt) /\ E_data \notin Range(c.mnt) /\ Len(c.mnt) <= 2
              /\ ~c.setup_mode /\ ~c.userns /\ ~c.is_c0 /\ c.fresh_meta /\ c.has_key
        /\ c.userns => E_hosts \in Range(c.mnt)
        /\ ~c.fresh_meta => E_data \in Range(c.mnt)
        /\ ~c.has_key =>
              E_data \in Range(c.mnt) /\ ~c.setup_mode /\ ~c.userns /\ c.fresh_meta
        /\ (\E e \in Range(c.mnt) :
                e.type \in { MOUNT_TYPE_FLASH, MOUNT_TYPE_BIND_DIR_RW }) =>
              /\ ~c.setup_mode /\ ~c.userns /\ ~c.is_c0 /\ c.fresh_meta /\ c.has_key
              /\ c.not_stacked /\ ~c.images
        /\ (\E e \in Range(c.mnt) : e.type = MOUNT_TYPE_EMPTY /\ ~e.encrypted) =>
              ~c.setup_mode /\ ~c.userns /\ ~c.is_c0 /\ c.fresh_meta /\ c.has_key
        /\ \/ c.mnt = << E_root >>
           \/ c.not_stacked /\ ~c.images
           \/ ~c.not_stacked /\ c.images /\ ~c.is_c0 }

\* vol->root and the root of the container's images in setup mode
vol_root == << "tmp", uuid_string >>
c_root(setup_mode) == IF setup_mode THEN vol_root \o << "setup" >> ELSE vol_root

\* ---- kernel: the mount table ------------------------------------------
IsPrefix(p, q) == Len(p) <= Len(q) /\ SubSeq(q, 1, Len(p)) = p

\* file_is_mountpoint(path)
file_is_mountpoint(mt, path) == \E i \in 1..Len(mt) : mt[i].path = path

\* a mount lies below path
HasSubmount(mt, path) ==
    \E i \in 1..Len(mt) : mt[i].path # path /\ IsPrefix(path, mt[i].path)

\* the sequence without the elements at the indices in I
RECURSIVE Without(_, _)
Without(s, I) ==
    IF s = << >> THEN << >>
    ELSE Without(SubSeq(s, 1, Len(s) - 1), I)
             \o (IF Len(s) \in I THEN << >> ELSE << s[Len(s)] >>)

\* the index of the topmost mount at path
TopMount(mt, path) ==
    CHOOSE i \in 1..Len(mt) :
        mt[i].path = path /\ \A j \in (i + 1)..Len(mt) : mt[j].path # path

\* umount(path): the topmost mount at path goes
Umount(mt, path) == Without(mt, { TopMount(mt, path) })

\* umount2(path, MNT_DETACH): the topmost mount at path and all below it go
Detach(mt, path) ==
    Without(mt, { TopMount(mt, path) }
                    \cup { i \in 1..Len(mt) : mt[i].path # path /\ IsPrefix(path, mt[i].path) })

\* the devices the mounts of a table hold open
MountedDevs(mt) == { mt[i].dev : i \in 1..Len(mt) }

\* no c_vol_mount_image has just returned
NoLast == [e |-> [type |-> "none"], ret |-> 0, calls |-> << >>]

\* a container before its start
VolInit ==
    /\ pc = "idle"
    /\ label = NULL /\ real_blkdev = NULL /\ meta_blkdev = NULL
    /\ mode = CRYPTFS_MODE_NOT_IMPLEMENTED
    /\ blk = [bytes |-> 8 * 512, sector_size |-> 512]
    /\ f = NoFrame /\ b = NoFrame
    /\ dm = << >> /\ nodes = {} /\ openers = {}
    /\ out = [zeroed |-> 0, synced |-> FALSE]
    /\ log = {}
    /\ ret = "none"
    /\ called = FALSE
    /\ deletes = 0
    /\ del = [ret |-> 0, held |-> FALSE, before |-> {}, tried |-> << >>, openfail |-> FALSE]
    /\ \E c \in Containers :
          /\ container = [fn |-> "container", mnt |-> c.mnt,
                          mnt_setup |-> IF c.setup_mode THEN << S_root >> ELSE << >>,
                          setup_mode |-> c.setup_mode, userns |-> c.userns,
                          is_c0 |-> c.is_c0, has_key |-> c.has_key]
          /\ key = IF c.has_key THEN "key" ELSE NULL
          /\ files = [not_stacked |-> c.not_stacked, images |-> c.images,
                      store_mounted |-> c.store]
          /\ metaSb = IF c.fresh_meta THEN [bytes |-> 4096, magic |-> "", pds |-> 0]
                      ELSE [bytes |-> 4096, magic |-> "integrt", pds |-> 8]
          /\ heap = [key |-> Buf(HexKey(IF c.is_c0 THEN INTEGRITY_HEXKEY_LEN
                                        ELSE CRYPTO_HEXKEY_LEN + INTEGRITY_HEXKEY_LEN)),
                     crypto_key |-> [st |-> "none", data |-> << >>],
                     integrity_key |-> [st |-> "none", data |-> << >>]]
    /\ vpc = "new"
    /\ vol = [mode |-> CRYPTFS_MODE_NOT_IMPLEMENTED]
    /\ mtab = << >>
    /\ hist = [fn |-> "c_vol", attempts |-> << >>, mounted0 |-> << >>, umounts |-> << >>,
               umount_ret |-> "none", removals |-> {}, images_ret |-> "none",
               rebooting |-> "none", control |-> "none", touched |-> FALSE,
               last |-> NoLast, verified |-> {}, early |-> "none", mkdirs |-> 0,
               from |-> "none", restarts |-> 0]
    /\ vf = NoFrame

(***************************************************************************)
(* c_vol_set_dm_mode and the start of the container                        *)
(***************************************************************************)
\* the policy with the two tests in the other order: prior images are looked
\* for before the marker
c_vol_set_dm_mode_ImagesFirst(fl, is_c0, touchOk) ==
    LET not_stacked_mode ==
            IF is_c0 THEN CRYPTFS_MODE_INTEGRITY_ONLY ELSE CRYPTFS_MODE_INTEGRITY_ENCRYPT
    IN  IF fl.images THEN [mode |-> CRYPTFS_MODE_AUTHENC, files |-> fl, touched |-> FALSE]
        ELSE IF fl.not_stacked
        THEN [mode |-> not_stacked_mode, files |-> fl, touched |-> FALSE]
        ELSE [mode |-> not_stacked_mode, files |-> [fl EXCEPT !.not_stacked = touchOk],
              touched |-> TRUE]

\* the policy: the mode, the images directory after the call and whether
\* file_touch was called on the marker (touchOk: it could create it)
c_vol_set_dm_mode(fl, is_c0, touchOk) ==
    LET not_stacked_mode ==
            IF is_c0 THEN CRYPTFS_MODE_INTEGRITY_ONLY ELSE CRYPTFS_MODE_INTEGRITY_ENCRYPT
    IN  IF fl.not_stacked THEN [mode |-> not_stacked_mode, files |-> fl, touched |-> FALSE]
        ELSE IF fl.images
        THEN [mode |-> CRYPTFS_MODE_AUTHENC, files |-> fl, touched |-> FALSE]
        ELSE [mode |-> not_stacked_mode, files |-> [fl EXCEPT !.not_stacked = touchOk],
              touched |-> TRUE]

\* a call of c_vol_set_dm_mode
SetDmMode ==
    \E touchOk \in BOOLEAN :
       LET r == c_vol_set_dm_mode(files, container.is_c0, touchOk)
       IN  /\ vol' = [vol EXCEPT !.mode = r.mode]
           /\ files' = r.files
           /\ hist' = [hist EXCEPT !.touched = r.touched]

\* c_vol_start_pre_clone
VolStartPreClone ==
    /\ vpc = "new"
    /\ SetDmMode
    /\ vpc' = "child_early"
    /\ UNCHANGED << cryptfs, container, mtab, vf >>

\* c_vol_get_mode: asked of a container that is not being started or cleaned
VolGetMode ==
    /\ vpc \in { "new", "running", "start_failed", "cleaned" }
    /\ SetDmMode
    /\ UNCHANGED << cryptfs, vpc, container, mtab, vf >>

\* c_vol_verify_mount_entries: the indices of the entries of vol->mnt whose
\* image is checked (no entry of the model carries a verity hash)
c_vol_verify_mount_entries(mnt) ==
    { i \in 1..Len(mnt) : mnt[i].type = MOUNT_TYPE_SHARED }

\* c_vol_start_child_early up to the call of c_vol_mount_images: the images
\* are checked in the order of vol->mnt up to the first bad one (bad = 0: all
\* are good), then the three directories are made (made < 3: the next mkdir
\* failed)
VolStartChildEarly ==
    /\ vpc = "child_early"
    /\ LET checks == c_vol_verify_mount_entries(container.mnt)
       IN  \E bad \in checks \cup { 0 }, made \in 0..3 :
              IF bad # 0
              THEN /\ made = 0
                   /\ vpc' = "start_failed"
                   /\ hist' = [hist EXCEPT
                                 !.verified = { container.mnt[i].img :
                                                  i \in checks \cap 1..(bad - 1) },
                                 !.early = "verify_failed"]
                   /\ UNCHANGED vf
              ELSE LET h == [hist EXCEPT
                               !.verified = { container.mnt[i].img : i \in checks },
                               !.mkdirs = made]
                   IN  IF made < 3
                       THEN /\ vpc' = "start_failed"
                            /\ hist' = [h EXCEPT !.early = "mkdir_failed"]
                            /\ UNCHANGED vf
                       ELSE /\ vpc' = "mount_images"
                            /\ hist' = [h EXCEPT !.early = "ok"]
                            /\ vf' = [fn |-> "c_vol_mount_images",
                                      phase |-> IF container.setup_mode THEN "setup"
                                                ELSE "main",
                                      i |-> 1]
    /\ UNCHANGED << cryptfs, vol, container, files, mtab >>

(***************************************************************************)
(* c_vol_mount_images and c_vol_mount_image                                *)
(***************************************************************************)
\* the position of the two loops of c_vol_mount_images from (phase, i) on
Advance(c, phase, i) ==
    IF phase = "setup" /\ i <= Len(c.mnt_setup) THEN [phase |-> "setup", i |-> i]
    ELSE IF phase = "setup"
    THEN (IF 1 <= Len(c.mnt) THEN [phase |-> "main", i |-> 1] ELSE [phase |-> "done", i |-> 0])
    ELSE IF i <= Len(c.mnt) THEN [phase |-> "main", i |-> i]
    ELSE [phase |-> "done", i |-> 0]

\* the entry the loop is at, and the root it is mounted under
CurEntry == IF vf.phase = "setup" THEN container.mnt_setup[vf.i] ELSE container.mnt[vf.i]
MountRoot == IF vf.phase = "setup" THEN vol_root ELSE c_root(container.setup_mode)

\* the switch over the mount type: the flags and what follows the mount
MountFlags(type) ==
    [ro |-> type \in { MOUNT_TYPE_SHARED, MOUNT_TYPE_BIND_FILE, MOUNT_TYPE_BIND_DIR },
     bind |-> type \in { MOUNT_TYPE_BIND_FILE, MOUNT_TYPE_BIND_DIR, MOUNT_TYPE_BIND_DIR_RW },
     shiftids |-> type \notin { MOUNT_TYPE_BIND_FILE, MOUNT_TYPE_FLASH }]

\* a mount of entry e at dir as the kernel has it (ro: it is read-only now)
Mounted(e, dir, dev, ro) ==
    [path |-> dir, dev |-> dev, ro |-> ro, bind |-> MountFlags(e.type).bind,
     declared_ro |-> MountFlags(e.type).ro, img |-> e.img, ok |-> FALSE]

\* c_vol_image_path_new: the directory of an entry's image, NULL for a type
\* the switch does not know
c_vol_image_path_new(e) ==
    CASE e.type \in { MOUNT_TYPE_SHARED, MOUNT_TYPE_FLASH } -> "guestos/" \o e.img \o ".img"
      [] e.type = MOUNT_TYPE_EMPTY -> "images/" \o e.img \o ".img"
      [] e.type = MOUNT_TYPE_BIND_FILE -> "files/" \o e.img
      [] e.type = MOUNT_TYPE_BIND_DIR -> e.img
      [] OTHER -> NULL

\* the loop device of an image
loopdev_create_new(img) == IF img = "data" THEN DATA_DEV ELSE "/dev/loop-" \o img

\* a call the function made and its result
Ev(op, res) == [op |-> op, res |-> res]

\* loopdev_free(dev), with close(fd), after the calls made so far
loopdev_free(calls, dev) == Append(calls, Ev("loop_free", dev))

\* container_get_key(vol->container) is NULL
NoKey_Never(c) == FALSE
NoKey(c) == ~c.has_key

\* c_vol_mount_file_bind: a failure before or in mount(); or the bind mount,
\* which the kernel makes writable, and for MS_RDONLY the remount, whose
\* failure is logged
c_vol_mount_file_bind(mt, e, dst) ==
    { [ret |-> -1, mt |-> mt, calls |-> << Ev("bind", "fail") >>] }
    \cup { [ret |-> 0, mt |-> Append(mt, Mounted(e, dst, e.img, ro)),
            calls |-> << Ev("bind", "ok") >>
                         \o (IF MountFlags(e.type).ro
                             THEN << Ev("remount", IF ro THEN "ok" ELSE "fail") >>
                             ELSE << >>)] :
             ro \in IF MountFlags(e.type).ro THEN BOOLEAN ELSE { FALSE } }

\* c_vol_mount_dir_bind: a failure of mount(); or the bind mount and for
\* MS_RDONLY the remount, whose failure unmounts (which may fail) and fails
c_vol_mount_dir_bind(mt, e, dst) ==
    { [ret |-> -1, mt |-> mt, calls |-> << Ev("bind", "fail") >>] }
    \cup { [ret |-> 0, mt |-> Append(mt, Mounted(e, dst, e.img, MountFlags(e.type).ro)),
            calls |-> << Ev("bind", "ok") >>
                         \o (IF MountFlags(e.type).ro THEN << Ev("remount", "ok") >>
                             ELSE << >>)] }
    \cup (IF MountFlags(e.type).ro
          THEN { [ret |-> -1,
                  mt |-> IF u = "ok" THEN mt ELSE Append(mt, Mounted(e, dst, e.img, FALSE)),
                  calls |-> << Ev("bind", "ok"), Ev("remount", "fail"), Ev("umount", u) >>] :
                   u \in { "ok", "fail" } }
          ELSE {})

\* the mount attempts for a device with EINVAL never answered by a format
MountDevice_NoFormat(mt, e, dir, dev, new_image) ==
    { [ret |-> 0, mt |-> Append(mt, Mounted(e, dir, dev, MountFlags(e.type).ro)),
       calls |-> << Ev("mount", "ok") >>],
      [ret |-> -1, mt |-> mt, calls |-> << Ev("mount", "EIO") >>],
      [ret |-> -1, mt |-> mt, calls |-> << Ev("mount", "EINVAL") >>] }

\* the mount attempts for a device: the mount with the entry's data and the one
\* without count as one call, failing with the errno of the second; EINVAL
\* formats the device of an EMPTY entry (not an encrypted one whose image was
\* there before) and mounts a second time
MountDevice(mt, e, dir, dev, new_image) ==
    LET m == Append(mt, Mounted(e, dir, dev, MountFlags(e.type).ro))
    IN  { [ret |-> 0, mt |-> m, calls |-> << Ev("mount", "ok") >>],
          [ret |-> -1, mt |-> mt, calls |-> << Ev("mount", "EIO") >>] }
        \cup (IF e.type # MOUNT_TYPE_EMPTY \/ (e.encrypted /\ ~new_image)
              THEN { [ret |-> -1, mt |-> mt, calls |-> << Ev("mount", "EINVAL") >>] }
              ELSE { [ret |-> -1, mt |-> mt,
                      calls |-> << Ev("mount", "EINVAL"), Ev("mkfs", "fail") >>],
                     [ret |-> -1, mt |-> mt,
                      calls |-> << Ev("mount", "EINVAL"), Ev("mkfs", "ok"),
                                   Ev("mount2", "fail") >>],
                     [ret |-> 0, mt |-> m,
                      calls |-> << Ev("mount", "EINVAL"), Ev("mkfs", "ok"),
                                   Ev("mount2", "ok") >>] })

\* the labels final and final_noshift: MS_PRIVATE needs a mount at dir, and it or
\* the id shift may fail; a success marks the mount as reported
Final(r, dir, shiftids) ==
    IF r.ret # 0 THEN { r }
    ELSE IF ~file_is_mountpoint(r.mt, dir)
    THEN { [ret |-> -1, mt |-> r.mt, calls |-> Append(r.calls, Ev("private", "EINVAL"))] }
    ELSE LET done == [r.mt EXCEPT ![TopMount(r.mt, dir)].ok = TRUE]
         IN  { [ret |-> -1, mt |-> r.mt, calls |-> Append(r.calls, Ev("private", "fail"))] }
             \cup (IF shiftids
                   THEN { [ret |-> -1, mt |-> r.mt,
                           calls |-> r.calls \o << Ev("private", "ok"), Ev("shift", "fail") >>],
                          [ret |-> 0, mt |-> done,
                           calls |-> r.calls \o << Ev("private", "ok"), Ev("shift", "ok") >>] }
                   ELSE { [ret |-> 0, mt |-> done,
                           calls |-> Append(r.calls, Ev("private", "ok"))] })

\* the mount of an entry's device at its directory after the calls pre, the label
\* final, and the release of the device on both exits
MountAndFinal(mt, e, dir, dev, new_image, pre) ==
    { [r EXCEPT !.calls = loopdev_free(pre \o @, dev)] :
        r \in UNION { Final(q, dir, MountFlags(e.type).shiftids) :
                        q \in MountDevice(mt, e, dir, dev, new_image) } }

\* c_vol_mount_image for an entry without encryption (fl: the images directory)
c_vol_mount_image(mt, c, fl, root, e) ==
    LET dir == root \o e.dir
        shiftids == MountFlags(e.type).shiftids
        new_image == e.type = MOUNT_TYPE_EMPTY /\ ~fl.images
        created == IF new_image THEN << Ev("create_image", "ok") >> ELSE << >>
        dev == loopdev_create_new(e.img)
    IN  CASE c_vol_image_path_new(e) = NULL -> { [ret |-> -1, mt |-> mt, calls |-> << >>] }
          [] e.type = MOUNT_TYPE_FLASH ->
                Final([ret |-> 0, mt |-> mt, calls |-> << >>], dir, shiftids)
          [] e.type = MOUNT_TYPE_BIND_FILE ->
                IF c.userns THEN Final([ret |-> 0, mt |-> mt, calls |-> << >>], dir, shiftids)
                ELSE UNION { Final(r, dir, shiftids) : r \in c_vol_mount_file_bind(mt, e, dir) }
          [] e.type \in { MOUNT_TYPE_BIND_DIR, MOUNT_TYPE_BIND_DIR_RW } ->
                UNION { Final(r, dir, shiftids) : r \in c_vol_mount_dir_bind(mt, e, dir) }
          [] OTHER ->
                (IF new_image
                 THEN { [ret |-> -1, mt |-> mt, calls |-> << Ev("create_image", "fail") >>] }
                 ELSE {})
                \cup { [ret |-> -1, mt |-> mt, calls |-> Append(created, Ev("loop", "fail"))] }
                \cup MountAndFinal(mt, e, dir, dev, new_image,
                                   Append(created, Ev("loop", dev)))

\* c_vol_umount_all is entered (ctx: from where): what is mounted is noted
UmountFrame(ctx, rebooting) ==
    [fn |-> "c_vol_umount_all", ctx |-> ctx, phase |-> "dev", i |-> 0,
     rebooting |-> rebooting]
Paths(mt) == [i \in 1..Len(mt) |-> mt[i].path]
StartUmount(h, mt) ==
    [h EXCEPT !.mounted0 = Paths(mt), !.umounts = << >>, !.umount_ret = "none"]

\* c_vol_mount_image returned r for entry e: the loop goes on, returns 0 after
\* the last entry, or jumps to err, which starts with c_vol_umount_all; an
\* image that was created or mounted exists in the images directory
AfterMountImage(r, e) ==
    LET h == [hist EXCEPT !.attempts = Append(@, e.img),
                          !.last = [e |-> e, ret |-> r.ret, calls |-> r.calls]]
        a == Advance(container, vf.phase, vf.i + 1)
    IN  /\ mtab' = r.mt
        /\ files' = [files EXCEPT
                       !.images = \/ @
                                  \/ Ev("create_image", "ok") \in Range(r.calls)
                                  \/ (r.ret = 0 /\ e.type = MOUNT_TYPE_EMPTY)]
        /\ openers' = openers \cup MountedDevs(r.mt)
        /\ IF r.ret # 0
           THEN /\ vpc' = "umount_all"
                /\ vf' = UmountFrame("err", FALSE)
                /\ hist' = StartUmount(h, r.mt)
           ELSE IF a.phase = "done"
           THEN /\ vpc' = "start_rest"
                /\ vf' = NoFrame
                /\ hist' = [h EXCEPT !.images_ret = "ok"]
           ELSE /\ vpc' = "mount_images"
                /\ vf' = [fn |-> vf.fn, phase |-> a.phase, i |-> a.i]
                /\ hist' = h

\* one pass of a loop of c_vol_mount_images: an entry without encryption
VolMountImage ==
    /\ vpc = "mount_images"
    /\ ~CurEntry.encrypted
    /\ \E r \in c_vol_mount_image(mtab, container, files, MountRoot, CurEntry) :
          AfterMountImage(r, CurEntry)
    /\ UNCHANGED << pc, argv, key, heap, f, b, dm, nodes, out, log, ret, called, deletes, del,
                    vol, container >>

\* the label of an entry's mapper device
VolLabel(e) == uuid_string \o "-" \o e.img

\* one pass of the main loop: an encrypted entry, up to the call of
\* cryptfs_setup_volume_new (early: the loop device could not be made; without
\* a key the entry fails; an existing mapper node is mounted without a setup)
VolMountImageCrypt ==
    /\ vpc = "mount_images"
    /\ CurEntry.encrypted
    /\ pc = "idle"
    /\ \E early \in BOOLEAN :
          LET e == CurEntry
              crypt == cryptfs_get_device_path_new(VolLabel(e))
              new_image == ~files.images
              dev == loopdev_create_new(e.img)
              pre == (IF new_image THEN << Ev("create_image", "ok") >> ELSE << >>)
                         \o << Ev("loop", dev) >>
          IN  IF early
              THEN /\ AfterMountImage([ret |-> -1, mt |-> mtab,
                                       calls |-> << Ev("loop", "fail") >>], e)
                   /\ UNCHANGED << argv, pc, f, called >>
              ELSE IF NoKey(container)
              THEN /\ AfterMountImage([ret |-> -1, mt |-> mtab,
                                       calls |-> loopdev_free(pre, dev)], e)
                   /\ UNCHANGED << argv, pc, f, called >>
              ELSE IF crypt \in nodes
              THEN /\ \E r \in MountAndFinal(mtab, e, MountRoot \o e.dir, crypt, new_image,
                                            pre) :
                         AfterMountImage(r, e)
                   /\ UNCHANGED << argv, pc, f, called >>
              ELSE /\ label' = VolLabel(e)
                   /\ real_blkdev' = dev
                   /\ meta_blkdev' = META_DEV
                   /\ mode' = vol.mode
                   /\ called' = TRUE
                   /\ pc' = "validate"
                   /\ f' = SetupLocals
                   /\ vpc' = "mount_image_crypt"
                   /\ files' = [files EXCEPT !.images = @ \/ e.type = MOUNT_TYPE_EMPTY]
                   /\ vf' = [fn |-> vf.fn, phase |-> vf.phase, i |-> vf.i,
                             new_image |-> new_image, calls |-> pre]
                   /\ hist' = [hist EXCEPT !.last = NoLast]
                   /\ UNCHANGED << key, blk, metaSb, openers, mtab >>
    /\ UNCHANGED << heap, b, dm, nodes, out, log, ret, deletes, del, vol, container >>

\* cryptfs_setup_volume_new returned: NULL fails the entry; else the device is
\* waited for and mounted
VolMountImageCryptReturn ==
    /\ vpc = "mount_image_crypt"
    /\ pc = "idle"
    /\ LET e == CurEntry
       IN  IF ret = NULL
           THEN AfterMountImage([ret |-> -1, mt |-> mtab,
                                 calls |-> loopdev_free(Append(vf.calls, Ev("setup", "fail")),
                                                        real_blkdev)], e)
           ELSE /\ ret \in nodes \cup { real_blkdev }
                /\ \E r \in MountAndFinal(mtab, e, MountRoot \o e.dir, ret, vf.new_image,
                                         Append(vf.calls, Ev("setup", "ok"))) :
                      AfterMountImage(r, e)
    /\ UNCHANGED << argv, pc, key, heap, f, b, dm, nodes, out, log, ret, called, deletes, del,
                    vol, container >>

\* the rest of c_vol_start_child_early: c_vol_do_shared_bind_mounts, which for a
\* mount set with a bind-file entry mounts the store on files_shared (outside
\* the root) unless it is mounted, and c_vol_mount_dev, a tmpfs on <root>/dev
VolStartRest ==
    /\ vpc = "start_rest"
    /\ LET contains_bind ==
               \E e \in Range(container.mnt) : e.type = MOUNT_TYPE_BIND_FILE
           to_mount == contains_bind /\ ~files.store_mounted
       IN  \E r \in { "ok", "dev" } \cup (IF to_mount THEN { "shared" } ELSE {}) :
              /\ files' = [files EXCEPT !.store_mounted = @ \/ (to_mount /\ r # "shared")]
              /\ IF r = "ok"
                 THEN /\ mtab' = Append(mtab, [path |-> vol_root \o << "dev" >>,
                                               dev |-> "tmpfs", ro |-> FALSE, bind |-> FALSE,
                                               declared_ro |-> FALSE, img |-> "tmpfs",
                                               ok |-> TRUE])
                      /\ vpc' = "running"
                 ELSE /\ vpc' = "start_failed"
                      /\ UNCHANGED mtab
    /\ hist' = [hist EXCEPT !.last = NoLast]
    /\ UNCHANGED << cryptfs, vol, container, vf >>

(***************************************************************************)
(* c_vol_umount_all, c_vol_cleanup_dm, c_vol_cleanup                       *)
(***************************************************************************)
\* c_vol_umount_dir: while a mount is at dir, umount, and on its failure
\* umount2 with MNT_DETACH; umount fails for a mount with mounts below it and
\* may fail for a busy one.  The results: the value returned, the mount
\* table, the devices detached mounts still hold, the calls that succeeded.
RECURSIVE c_vol_umount_dir(_, _)
c_vol_umount_dir(mt, dir) ==
    IF ~file_is_mountpoint(mt, dir)
    THEN { [ret |-> 0, mt |-> mt, held |-> {}, done |-> << >>] }
    ELSE LET after(mt2, held) ==
                 { [r EXCEPT !.held = @ \cup held, !.done = << dir >> \o @] :
                     r \in c_vol_umount_dir(mt2, dir) }
             gone == MountedDevs(mt) \ MountedDevs(Detach(mt, dir))
         IN  (IF HasSubmount(mt, dir) THEN {} ELSE after(Umount(mt, dir), {}))
             \cup after(Detach(mt, dir), {})
             \cup after(Detach(mt, dir), gone)
             \cup { [ret |-> -1, mt |-> mt, held |-> {}, done |-> << >>] }

\* the directory a pass of c_vol_umount_all unmounts
UmountTarget(c, phase, i) ==
    CASE phase = "dev" -> vol_root \o << "dev" >>
      [] phase = "setup" -> c_root(TRUE) \o c.mnt_setup[i].dir
      [] OTHER -> vol_root \o c.mnt[i].dir

\* the pass after (phase, i): the loops run from the last entry to the first
UmountNext(c, phase, i) ==
    IF phase = "dev"
    THEN (IF c.setup_mode /\ Len(c.mnt_setup) >= 1
          THEN [phase |-> "setup", i |-> Len(c.mnt_setup)]
          ELSE IF Len(c.mnt) >= 1 THEN [phase |-> "main", i |-> Len(c.mnt)]
          ELSE [phase |-> "done", i |-> 0])
    ELSE IF i > 1 THEN [phase |-> phase, i |-> i - 1]
    ELSE IF phase = "setup" /\ Len(c.mnt) >= 1 THEN [phase |-> "main", i |-> Len(c.mnt)]
    ELSE [phase |-> "done", i |-> 0]

\* c_vol_umount_all returned: err of c_vol_mount_images and c_vol_cleanup go on
\* to c_vol_cleanup_dm whatever it returned, c_vol_cleanup unless rebooting
AfterUmountAll(r) ==
    /\ hist' = [hist EXCEPT !.last = NoLast,
                            !.umounts = @ \o r.done,
                            !.umount_ret = IF r.ret = 0 THEN "ok" ELSE "failed",
                            !.images_ret = IF vf.ctx = "err" THEN "failed" ELSE @]
    /\ IF vf.ctx = "cleanup" /\ vf.rebooting
       THEN vpc' = "cleaned" /\ vf' = NoFrame
       ELSE /\ vpc' = "cleanup_dm_open"
            /\ vf' = [fn |-> "c_vol_cleanup_dm", ctx |-> vf.ctx, i |-> Len(container.mnt)]

\* one c_vol_umount_dir of c_vol_umount_all
VolUmountDir ==
    /\ vpc = "umount_all"
    /\ \E r \in c_vol_umount_dir(mtab, UmountTarget(container, vf.phase, vf.i)) :
          LET n == UmountNext(container, vf.phase, vf.i)
          IN  /\ mtab' = r.mt
              /\ openers' = (openers \ MountedDevs(mtab)) \cup MountedDevs(r.mt) \cup r.held
              /\ IF r.ret < 0 \/ n.phase = "done"
                 THEN AfterUmountAll(r)
                 ELSE /\ vf' = [vf EXCEPT !.phase = n.phase, !.i = n.i]
                      /\ hist' = [hist EXCEPT !.last = NoLast, !.umounts = @ \o r.done]
                      /\ vpc' = "umount_all"
    /\ UNCHANGED << argv, pc, key, heap, f, b, dm, nodes, out, log, ret, called, deletes, del,
                    vol, container, files >>

\* dm_open_control of c_vol_cleanup_dm
VolCleanupDmOpen ==
    /\ vpc = "cleanup_dm_open"
    /\ \E ok \in BOOLEAN :
          /\ hist' = [hist EXCEPT !.control = IF ok THEN "opened" ELSE "failed"]
          /\ IF ok /\ vf.i >= 1
             THEN vpc' = "cleanup_dm" /\ UNCHANGED vf
             ELSE vpc' = (IF vf.ctx = "err" THEN "start_failed" ELSE "cleaned") /\ vf' = NoFrame
    /\ UNCHANGED << cryptfs, vol, container, files, mtab >>

\* the target type of the live table of a mapper device, NULL without one
dm_get_target_type_new(d, name) ==
    IF DmExists(d, name) /\ d[name].live # NoTable THEN d[name].live.target_type ELSE NULL

\* one pass of the loop of c_vol_cleanup_dm, over vol->mnt from the last entry
VolCleanupDmEntry ==
    /\ vpc = "cleanup_dm"
    /\ \E opened2 \in BOOLEAN :
          LET e == container.mnt[vf.i]
              type == dm_get_target_type_new(dm, VolLabel(e))
              k == IF type \in { "crypt", "integrity" }
                   THEN cryptfs_delete_blk_dev(KernelState(dm, nodes, log), openers, 3,
                                               VolLabel(e), vol.mode, TRUE, opened2)
                   ELSE KernelState(dm, nodes, log)
          IN  /\ dm' = k.dm
              /\ nodes' = k.nodes
              /\ log' = k.log
              /\ hist' = [hist EXCEPT
                            !.removals =
                               @ \cup { [name |-> k.tried[j], mounted |-> Paths(mtab),
                                         devs |-> MountedDevs(mtab)] : j \in 1..Len(k.tried) },
                            !.control = IF k.openfail THEN "failed" ELSE @]
    /\ IF vf.i > 1
       THEN vpc' = "cleanup_dm" /\ vf' = [vf EXCEPT !.i = @ - 1]
       ELSE vpc' = (IF vf.ctx = "err" THEN "start_failed" ELSE "cleaned") /\ vf' = NoFrame
    /\ UNCHANGED << argv, pc, key, heap, f, b, openers, out, ret, called, deletes, del,
                    vol, container, files, mtab >>

\* c_vol_cleanup of a container that was started
VolCleanup ==
    /\ vpc \in { "running", "start_failed" }
    /\ hist.rebooting = "none"
    /\ \E is_rebooting \in BOOLEAN :
          /\ vf' = UmountFrame("cleanup", is_rebooting)
          /\ hist' = StartUmount([hist EXCEPT !.rebooting = IF is_rebooting THEN "yes" ELSE "no",
                                              !.from = vpc],
                              mtab)
    /\ vpc' = "umount_all"
    /\ UNCHANGED << cryptfs, vol, container, files, mtab >>

\* the containers that are started again after a reboot: those with a key and
\* a mount set of one encrypted entry
Reboots(c) ==
    IF /\ c.has_key /\ ~c.setup_mode /\ ~c.userns
       /\ Len(c.mnt) = 1 /\ c.mnt[1].encrypted
    THEN MaxRestarts ELSE 0

\* the container starts again after the c_vol_cleanup of a reboot that released
\* every mount: the hooks run from c_vol_start_pre_clone with the kernel's
\* state as it was left
VolRestart ==
    /\ vpc = "cleaned"
    /\ hist.rebooting = "yes" /\ hist.from = "running"
    /\ hist.umount_ret = "ok" /\ mtab = << >>
    /\ hist.restarts < Reboots(container)
    /\ vpc' = "new"
    /\ called' = FALSE
    /\ hist' = [hist EXCEPT !.attempts = << >>, !.mounted0 = << >>, !.umounts = << >>,
                            !.umount_ret = "none", !.removals = {}, !.images_ret = "none",
                            !.rebooting = "none", !.control = "none", !.touched = FALSE,
                            !.last = NoLast, !.verified = {}, !.early = "none",
                            !.mkdirs = 0, !.from = "none", !.restarts = @ + 1]
    /\ UNCHANGED << pc, label, real_blkdev, key, meta_blkdev, mode, blk, metaSb, heap, f, b,
                    dm, nodes, openers, out, log, ret, deletes, del,
                    vol, container, files, mtab, vf >>

VolNext ==
    \/ VolStartPreClone
    \/ VolGetMode
    \/ VolStartChildEarly
    \/ VolMountImage
    \/ VolMountImageCrypt
    \/ VolMountImageCryptReturn
    \/ VolStartRest
    \/ VolUmountDir
    \/ VolCleanupDmOpen
    \/ VolCleanupDmEntry
    \/ VolCleanup
    \/ VolRestart
    \/ SetupValidate
    \/ SetupSplitKey
    \/ SetupProbeSize
    \/ SetupIntegrity
    \/ IntegrityOpen
    \/ IntegrityCreate
    \/ IntegrityLoadTable
    \/ IntegrityLoadRetry
    \/ IntegrityResume
    \/ IntegrityNode
    \/ SetupEncrypt
    \/ CryptoOpen
    \/ CryptoCreate
    \/ CryptoLoadTable
    \/ CryptoLoadRetry
    \/ CryptoResume
    \/ CryptoNode
    \/ SetupFormat
    \/ WriteZerosBegin
    \/ WriteZerosLoop
    \/ WriteZerosSync
    \/ FallbackOpen
    \/ FallbackLoop
    \/ FallbackDone
    \/ SetupSuccess
    \/ SetupError

VolSpec == VolInit /\ [][VolNext]_vars

(***************************************************************************)
(* c_vol_do_shared_bind_mounts (c_vol.c), run by several containers that   *)
(* start in the host mount namespace.  The function takes no lock, so the  *)
(* containers interleave at its system calls; each step below is one of    *)
(* them.  files is the state of SHARED_FILES_PATH and of its _store.img,   *)
(* mtab the mounts stacked on SHARED_FILES_PATH, vf the locals of each     *)
(* caller, hist the number of image creations, mkfs runs and loop devices. *)
(***************************************************************************)
Procs == 1 .. NProcs

ShareInit ==
    /\ pc = "idle"
    /\ label = NULL /\ real_blkdev = NULL /\ meta_blkdev = NULL /\ key = NULL
    /\ mode = CRYPTFS_MODE_NOT_IMPLEMENTED
    /\ blk = [bytes |-> 0, sector_size |-> 512]
    /\ metaSb = [bytes |-> 0, magic |-> "", pds |-> 0]
    /\ heap = << >>
    /\ f = NoFrame /\ b = NoFrame
    /\ dm = << >> /\ nodes = {} /\ openers = {}
    /\ out = [zeroed |-> 0, synced |-> FALSE]
    /\ log = {}
    /\ ret = "none"
    /\ called = FALSE
    /\ deletes = 0
    /\ del = [ret |-> 0, held |-> FALSE, before |-> {}, tried |-> << >>, openfail |-> FALSE]
    /\ vpc = "shared"
    /\ vol = [mode |-> CRYPTFS_MODE_NOT_IMPLEMENTED]
    /\ \E cb \in [Procs -> BOOLEAN] :
          container = [fn |-> "containers", contains_bind |-> cb]
    /\ \E d \in BOOLEAN, img \in { "absent", "ext4" } :
          /\ img = "ext4" => d
          /\ files = [is_dir |-> d, store_img |-> img]
    /\ mtab = << >>
    /\ hist = [fn |-> "shared", creates |-> 0, formats |-> 0, loops |-> 0]
    /\ vf = [p \in Procs |-> [pc |-> "bind_count", bind_dev |-> 0, ret |-> "none"]]

\* the caller p moves to statement s, or returns r
ShareGoto(p, s) == vf' = [vf EXCEPT ![p].pc = s]
ShareReturn(p, r) == vf' = [vf EXCEPT ![p].pc = "returned", ![p].ret = r]

\* one step of c_vol_do_shared_bind_mounts made by the container p
c_vol_do_shared_bind_mounts(p) ==
    /\ vpc = "shared"
    /\ vf[p].pc # "returned"
    /\ CASE vf[p].pc = "bind_count" ->
              \* the loop over the entries, IF_FALSE_RETVAL(contains_bind, 0)
              /\ IF container.contains_bind[p]
                 THEN ShareGoto(p, "file_is_dir")
                 ELSE ShareReturn(p, 0)
              /\ UNCHANGED << files, mtab, hist >>
         [] vf[p].pc = "file_is_dir" ->
              /\ ShareGoto(p, IF files.is_dir THEN "file_is_mountpoint" ELSE "dir_mkdir_p")
              /\ UNCHANGED << files, mtab, hist >>
         [] vf[p].pc = "dir_mkdir_p" ->
              \* an existing directory is no error of dir_mkdir_p
              /\ \E ok \in BOOLEAN :
                    IF ok \/ files.is_dir
                    THEN /\ files' = [files EXCEPT !.is_dir = TRUE]
                         /\ ShareGoto(p, "file_is_mountpoint")
                    ELSE /\ ShareReturn(p, -1)
                         /\ UNCHANGED files
              /\ UNCHANGED << mtab, hist >>
         [] vf[p].pc = "file_is_mountpoint" ->
              /\ IF mtab # << >>
                 THEN ShareReturn(p, 0)
                 ELSE ShareGoto(p, "file_exists")
              /\ UNCHANGED << files, mtab, hist >>
         [] vf[p].pc = "file_exists" ->
              /\ ShareGoto(p, IF files.store_img # "absent" THEN "loopdev_create_new"
                              ELSE "create_image_empty")
              /\ UNCHANGED << files, mtab, hist >>
         [] vf[p].pc = "create_image_empty" ->
              \* open(O_CREAT | O_TRUNC) empties the file whatever it held; a
              \* failure comes from open (file untouched) or from a later call
              /\ \E r \in { "ok", "open", "later" } :
                    /\ files' = IF r = "open" THEN files
                                ELSE [files EXCEPT !.store_img = "zeros"]
                    /\ hist' = IF r = "open" THEN hist
                               ELSE [hist EXCEPT !.creates = @ + 1]
                    /\ IF r = "ok" THEN ShareGoto(p, "format_image")
                       ELSE ShareReturn(p, -1)
              /\ UNCHANGED mtab
         [] vf[p].pc = "format_image" ->
              \* mkfs.ext4 on the image file
              /\ \E ok \in BOOLEAN :
                    IF ok /\ files.store_img # "absent"
                    THEN /\ files' = [files EXCEPT !.store_img = "ext4"]
                         /\ hist' = [hist EXCEPT !.formats = @ + 1]
                         /\ ShareGoto(p, "loopdev_create_new")
                    ELSE /\ ShareReturn(p, -1)
                         /\ UNCHANGED << files, hist >>
              /\ UNCHANGED mtab
         [] vf[p].pc = "loopdev_create_new" ->
              /\ \E ok \in BOOLEAN :
                    IF ok
                    THEN /\ hist' = [hist EXCEPT !.loops = @ + 1]
                         /\ vf' = [vf EXCEPT ![p].pc = "mount",
                                             ![p].bind_dev = hist.loops + 1]
                    ELSE /\ ShareReturn(p, -1)
                         /\ UNCHANGED hist
              /\ UNCHANGED << files, mtab >>
         [] vf[p].pc = "mount" ->
              \* the kernel stacks a mount on a directory that is a mount point
              \* already; only an ext4 image mounts
              /\ \E ok \in BOOLEAN :
                    IF ok /\ files.store_img = "ext4"
                    THEN /\ mtab' = Append(mtab, [dev |-> vf[p].bind_dev, by |-> p])
                         /\ ShareReturn(p, 0)
                    ELSE /\ ShareReturn(p, -1)
                         /\ UNCHANGED mtab
              /\ UNCHANGED << files, hist >>
    /\ UNCHANGED << cryptfs, vpc, vol, container >>

ShareNext == \E p \in Procs : c_vol_do_shared_bind_mounts(p)

ShareSpec == ShareInit /\ [][ShareNext]_vars

(***************************************************************************)
(* The waits for a produced device node (c_vol.c): `while (access(dev,     *)
(* F_OK) < 0) NANOSLEEP` after the verity device (830-833), after the      *)
(* crypt device (899-902) and before the lower mount of an overlay         *)
(* (496-499).  nodes are the device nodes present, vf the position of the  *)
(* waiting function, hist the time in sleeps made and the deadline the     *)
(* caller has for the call.  The node of a crypt device was made by        *)
(* cryptfs_setup_volume_new (mknod) or seen by file_is_blk, the lower      *)
(* device of an overlay is the device of the entry; the node of a verity   *)
(* device is made outside the function and may be missing.                 *)
(***************************************************************************)
MaxTime == MaxDeadline + 1

WaitSites ==
    { [fn |-> "c_vol_mount_image", wait |-> "verity",
       dev |-> cryptfs_get_device_path_new(VolLabel(E_root))],
      [fn |-> "c_vol_mount_image", wait |-> "crypt",
       dev |-> cryptfs_get_device_path_new(VolLabel(E_data))],
      [fn |-> "c_vol_mount_overlay", wait |-> "lower",
       dev |-> loopdev_create_new(E_modules.img)] }

WaitInit ==
    /\ pc = "idle"
    /\ label = NULL /\ real_blkdev = NULL /\ meta_blkdev = NULL /\ key = NULL
    /\ mode = CRYPTFS_MODE_NOT_IMPLEMENTED
    /\ blk = [bytes |-> 0, sector_size |-> 512]
    /\ metaSb = [bytes |-> 0, magic |-> "", pds |-> 0]
    /\ heap = << >>
    /\ f = NoFrame /\ b = NoFrame
    /\ dm = << >> /\ openers = {}
    /\ out = [zeroed |-> 0, synced |-> FALSE]
    /\ log = {}
    /\ ret = "none"
    /\ called = FALSE
    /\ deletes = 0
    /\ del = [ret |-> 0, held |-> FALSE, before |-> {}, tried |-> << >>, openfail |-> FALSE]
    /\ vpc = "wait"
    /\ vol = [mode |-> CRYPTFS_MODE_NOT_IMPLEMENTED]
    /\ container = [fn |-> "none"]
    /\ files = [not_stacked |-> FALSE, images |-> FALSE]
    /\ mtab = << >>
    /\ \E s \in WaitSites, present \in BOOLEAN, d \in 1 .. MaxDeadline :
          /\ s.wait # "verity" => present
          /\ nodes = IF present THEN { s.dev } ELSE {}
          /\ vf = [fn |-> s.fn, wait |-> s.wait, dev |-> s.dev, pc |-> "access"]
          /\ hist = [fn |-> "wait", now |-> 0, deadline |-> d]

\* one pass of the loop: access(dev, F_OK), and NANOSLEEP when it failed.
\* The deadline is no operand of the loop.
WaitForDevice ==
    /\ vpc = "wait"
    /\ vf.pc = "access"
    /\ IF vf.dev \in nodes
       THEN vf' = [vf EXCEPT !.pc = "available"] /\ UNCHANGED hist
       ELSE /\ hist' = [hist EXCEPT !.now = IF @ < MaxTime THEN @ + 1 ELSE @]
            /\ UNCHANGED vf
    /\ UNCHANGED << cryptfs, vpc, vol, container, files, mtab >>

\* the node is made for a device that is being waited for
DeviceAppears ==
    /\ vpc = "wait"
    /\ vf.pc = "access"
    /\ vf.dev \notin nodes
    /\ nodes' = nodes \cup { vf.dev }
    /\ UNCHANGED << cvol, argv, pc, heap, f, b, dm, openers, out, log, ret, called, deletes,
                    del >>

WaitNext == WaitForDevice \/ DeviceAppears

\* the waiting process keeps running; nothing obliges the node to appear
WaitSpec == WaitInit /\ [][WaitNext]_vars /\ WF_vars(WaitForDevice)

\* ---------------------------------------------------------------------------
\* c_vol_mount_image statement by statement for one entry of an image type:
\* its locals fd, fd_meta, new_image, dev and dev_meta, the descriptors of the
\* process and the calls it makes
\* ---------------------------------------------------------------------------

MOUNT_TYPE_OVERLAY_RW == "MOUNT_TYPE_OVERLAY_RW"
MOUNT_TYPE_COPY == "MOUNT_TYPE_COPY"

\* the entries: every image type that reaches c_vol_check_image, on ext4 or btrfs
ImageEntries ==
    [img : { "data" },
     type : { MOUNT_TYPE_SHARED, MOUNT_TYPE_EMPTY, MOUNT_TYPE_OVERLAY_RW, MOUNT_TYPE_COPY },
     fs : { "ext4", "btrfs" }, encrypted : BOOLEAN]

\* c_vol_create_image_copy: the result of file_copy is logged, and for btrfs
\* replaced by the result of c_vol_btrfs_regen_uuid (copied, regen: the copy
\* and btrfstune succeed; has_dir: the guest OS has an image directory)
c_vol_create_image_copy(fs, has_dir, copied, regen) ==
    IF ~has_dir THEN -1
    ELSE LET copy == IF copied THEN 0 ELSE -1
         IN  IF fs = "btrfs" THEN (IF regen THEN 0 ELSE -1) ELSE copy

\* c_vol_create_image (sparse: c_vol_create_image_empty succeeds)
c_vol_create_image(e, sparse, has_dir, copied, regen) ==
    CASE e.type = MOUNT_TYPE_SHARED -> 0
      [] e.type \in { MOUNT_TYPE_OVERLAY_RW, MOUNT_TYPE_EMPTY } -> IF sparse THEN 0 ELSE -1
      [] e.type = MOUNT_TYPE_COPY -> c_vol_create_image_copy(e.fs, has_dir, copied, regen)
      [] OTHER -> -1

\* the flags the switch on the entry's type sets
ImageFlags(type) ==
    [overlay |-> type = MOUNT_TYPE_OVERLAY_RW,
     shiftids |-> TRUE]

\* a format after EINVAL for every EMPTY entry
FormatsOnEinval_AnyEmpty(e, new_image) ==
    e.type = MOUNT_TYPE_EMPTY

\* after two mounts that failed with EINVAL the device is formatted: for an
\* EMPTY entry, unless it is encrypted and its image was not created in this call
FormatsOnEinval(e, new_image) ==
    e.type = MOUNT_TYPE_EMPTY /\ ~(e.encrypted /\ ~new_image)

\* open(2) in loopdev_create_new: the lowest descriptor that is not open
\* (0, 1 and 2 are the daemon's standard streams)
LowestFree(open) ==
    CHOOSE d \in 3 .. 3 + Cardinality(open) : d \notin open /\ \A x \in 3 .. d - 1 : x \in open

\* close(fd): the descriptor leaves the table; open says whether it was in it
Close(h, open, fd) == [h EXCEPT !.closes = Append(@, [fd |-> fd, open |-> fd \in open])]

ImgCall(h, op, res) == [h EXCEPT !.calls = Append(@, Ev(op, res))]

ImageInit ==
    /\ pc = "idle"
    /\ label = NULL /\ real_blkdev = NULL /\ meta_blkdev = NULL /\ key = NULL
    /\ mode = CRYPTFS_MODE_NOT_IMPLEMENTED
    /\ blk = [bytes |-> 0, sector_size |-> 512]
    /\ metaSb = [bytes |-> 0, magic |-> "", pds |-> 0]
    /\ heap = << >>
    /\ f = NoFrame /\ b = NoFrame
    /\ dm = << >> /\ openers = {}
    /\ out = [zeroed |-> 0, synced |-> FALSE]
    /\ log = {}
    /\ ret = "none"
    /\ called = FALSE
    /\ deletes = 0
    /\ del = [ret |-> 0, held |-> FALSE, before |-> {}, tried |-> << >>, openfail |-> FALSE]
    /\ vpc = "mount_image"
    /\ vol = [mode |-> CRYPTFS_MODE_AUTHENC]
    /\ mtab = << >>
    /\ \E e \in ImageEntries, exists \in BOOLEAN, has_key \in BOOLEAN, node \in BOOLEAN :
          /\ node => e.encrypted /\ exists
          /\ container = [fn |-> "image", e |-> e, has_key |-> has_key]
          /\ files = [image |-> exists, open |-> {}]
          /\ nodes = IF node THEN { cryptfs_get_device_path_new(VolLabel(e)) } ELSE {}
          /\ hist = [fn |-> "image", existed |-> exists, calls |-> << >>,
                     opened |-> << >>, closes |-> << >>]
    /\ vf = [fn |-> "c_vol_mount_image", pc |-> "check_image", fd |-> 0, fd_meta |-> 0,
             new_image |-> FALSE, dev |-> NULL, dev_meta |-> NULL, ret |-> 0]

ImgGoto(fr, s) == [fr EXCEPT !.pc = s]

\* c_vol_check_image, and c_vol_create_image for an image that is not there
ImgCheckImage ==
    /\ vpc = "mount_image" /\ vf.pc = "check_image"
    /\ IF files.image
       THEN /\ vf' = ImgGoto(vf, "loopdev")
            /\ UNCHANGED << files, hist >>
       ELSE \E sparse \in BOOLEAN, has_dir \in BOOLEAN, copied \in BOOLEAN, regen \in BOOLEAN :
               LET e == container.e
                   r == c_vol_create_image(e, sparse, has_dir, copied, regen)
                   h == IF e.type = MOUNT_TYPE_COPY /\ has_dir
                        THEN ImgCall(hist, "file_copy", IF copied THEN "ok" ELSE "fail")
                        ELSE hist
               IN  /\ e.type # MOUNT_TYPE_COPY => has_dir /\ copied /\ regen
                   /\ e.type \in { MOUNT_TYPE_COPY, MOUNT_TYPE_SHARED } => sparse
                   /\ e.type = MOUNT_TYPE_COPY /\ (~has_dir \/ e.fs # "btrfs") => regen
                   /\ e.type = MOUNT_TYPE_COPY /\ ~has_dir => copied
                   /\ hist' = ImgCall(h, "create_image", IF r < 0 THEN "fail" ELSE "ok")
                   /\ files' = [files EXCEPT !.image = @ \/ e.type # MOUNT_TYPE_SHARED]
                   /\ vf' = [vf EXCEPT !.new_image = TRUE,
                                       !.pc = IF r < 0 THEN "error" ELSE "loopdev"]
    /\ UNCHANGED << cryptfs, vol, container, mtab, vpc >>

\* dev = loopdev_create_new(&fd, img, 0, 0), which needs the image file
ImgLoopdev ==
    /\ vpc = "mount_image" /\ vf.pc = "loopdev"
    /\ \E ok \in { files.image, FALSE } :
          IF ok
          THEN LET d == LowestFree(files.open)
               IN  /\ files' = [files EXCEPT !.open = @ \cup { d }]
                   /\ hist' = [ImgCall(hist, "loop", "ok") EXCEPT !.opened = Append(@, d)]
                   /\ vf' = [vf EXCEPT !.fd = d, !.dev = loopdev_create_new(container.e.img),
                                       !.pc = IF container.e.encrypted THEN "encrypted"
                                              ELSE "mount"]
          ELSE /\ hist' = ImgCall(hist, "loop", "fail")
               /\ vf' = ImgGoto(vf, "error")
               /\ UNCHANGED files
    /\ UNCHANGED << cryptfs, vol, container, mtab, vpc >>

\* the block of an encrypted entry: the key, the mapper node that is there or
\* the meta loop device, cryptfs_setup_volume_new and close(fd_meta)
ImgEncrypted ==
    /\ vpc = "mount_image" /\ vf.pc = "encrypted"
    /\ LET crypt == cryptfs_get_device_path_new(VolLabel(container.e))
       IN  IF ~container.has_key
           THEN /\ vf' = ImgGoto(vf, "error")
                /\ UNCHANGED << files, hist, nodes >>
           ELSE IF crypt \in nodes
           THEN /\ vf' = [vf EXCEPT !.dev = crypt, !.pc = "mount"]
                /\ UNCHANGED << files, hist, nodes >>
           ELSE \E meta \in BOOLEAN, setup \in BOOLEAN :
                   IF ~meta
                   THEN /\ setup
                        /\ hist' = ImgCall(hist, "meta_loop", "fail")
                        /\ vf' = ImgGoto(vf, "error")
                        /\ UNCHANGED << files, nodes >>
                   ELSE LET d == LowestFree(files.open)
                            h1 == [ImgCall(hist, "meta_loop", "ok") EXCEPT
                                     !.opened = Append(@, d)]
                            h2 == ImgCall(h1, "setup", IF setup THEN "ok" ELSE "fail")
                        IN  /\ hist' = Close(h2, files.open \cup { d }, d)
                            /\ files' = [files EXCEPT !.open = @ \ { d }]
                            /\ nodes' = IF setup THEN nodes \cup { crypt } ELSE nodes
                            /\ vf' = [vf EXCEPT !.fd_meta = d,
                                                !.dev_meta = "/dev/loop-meta",
                                                !.dev = IF setup THEN crypt ELSE @,
                                                !.pc = IF setup THEN "mount" ELSE "error"]
    /\ UNCHANGED << pc, label, real_blkdev, meta_blkdev, key, mode, blk, metaSb, heap, f, b,
                    dm, openers, out, log, ret, called, deletes, del,
                    vol, container, mtab, vpc >>

\* the overlay block of an OVERLAY_RW entry: the upper device is formatted
\* when the image is new, then c_vol_mount_overlay
ImgOverlay ==
    /\ vpc = "mount_image" /\ vf.pc = "mount"
    /\ ImageFlags(container.e.type).overlay
    /\ \E mkfs \in BOOLEAN, mounted \in BOOLEAN :
          LET h == IF vf.new_image
                   THEN ImgCall(hist, "mkfs", IF mkfs THEN "ok" ELSE "fail")
                   ELSE hist
          IN  /\ ~vf.new_image => mkfs
              /\ ~mkfs => mounted
              /\ IF ~mkfs
                 THEN hist' = h /\ vf' = ImgGoto(vf, "error")
                 ELSE /\ hist' = ImgCall(h, "mount_overlay", IF mounted THEN "ok" ELSE "fail")
                      /\ vf' = ImgGoto(vf, IF mounted THEN "final_noshift" ELSE "error")
    /\ UNCHANGED << cryptfs, vol, container, files, mtab, vpc >>

\* the mounts of an entry without overlay: the two attempts, the format after
\* EINVAL and the second try
ImgMount ==
    /\ vpc = "mount_image" /\ vf.pc = "mount"
    /\ ~ImageFlags(container.e.type).overlay
    /\ \E res \in { "ok", "EIO", "EINVAL" }, mkfs \in BOOLEAN, again \in BOOLEAN :
          LET h == ImgCall(hist, "mount", res)
              formats == res = "EINVAL" /\ FormatsOnEinval(container.e, vf.new_image)
          IN  /\ ~formats => mkfs /\ again
              /\ ~mkfs => again
              /\ IF res = "ok"
                 THEN hist' = h /\ vf' = ImgGoto(vf, "final")
                 ELSE IF ~formats
                 THEN hist' = h /\ vf' = ImgGoto(vf, "error")
                 ELSE IF ~mkfs
                 THEN hist' = ImgCall(h, "mkfs", "fail") /\ vf' = ImgGoto(vf, "error")
                 ELSE /\ hist' = ImgCall(ImgCall(h, "mkfs", "ok"), "mount2",
                                         IF again THEN "ok" ELSE "fail")
                      /\ vf' = ImgGoto(vf, IF again THEN "final" ELSE "error")
    /\ UNCHANGED << cryptfs, vol, container, files, mtab, vpc >>

\* the label final: MS_PRIVATE and the id shift
ImgFinal ==
    /\ vpc = "mount_image" /\ vf.pc = "final"
    /\ \E private \in BOOLEAN, shifted \in BOOLEAN :
          /\ ~private => shifted
          /\ vf' = ImgGoto(vf, IF private /\ (shifted \/ ~ImageFlags(container.e.type).shiftids)
                               THEN "final_noshift" ELSE "error")
    /\ UNCHANGED << cryptfs, vol, container, files, mtab, hist, vpc >>

\* the labels final_noshift and error: loopdev_free of dev and dev_meta, then
\* close(fd) and close(fd_meta) for each of the two that is not 0
ImgExit ==
    /\ vpc = "mount_image" /\ vf.pc \in { "final_noshift", "error" }
    /\ LET h1 == IF vf.fd # 0 THEN Close(hist, files.open, vf.fd) ELSE hist
           o1 == IF vf.fd # 0 THEN files.open \ { vf.fd } ELSE files.open
           h2 == IF vf.fd_meta # 0 THEN Close(h1, o1, vf.fd_meta) ELSE h1
           o2 == IF vf.fd_meta # 0 THEN o1 \ { vf.fd_meta } ELSE o1
       IN  /\ hist' = h2
           /\ files' = [files EXCEPT !.open = o2]
           /\ vf' = [vf EXCEPT !.pc = "return",
                               !.ret = IF vf.pc = "error" THEN -1 ELSE 0]
    /\ UNCHANGED << cryptfs, vol, container, mtab, vpc >>

ImageNext ==
    \/ ImgCheckImage
    \/ ImgLoopdev
    \/ ImgEncrypted
    \/ ImgOverlay
    \/ ImgMount
    \/ ImgFinal
    \/ ImgExit

ImageSpec == ImageInit /\ [][ImageNext]_vars

(***************************************************************************)
(* Properties                                                              *)
(***************************************************************************)
VolumeNames == { LABEL, IntegrityLabel(LABEL) }

\* no mapper device of the volume exists
NoVolumeDevice == \A n \in VolumeNames : ~DmExists(dm, n)

\* the arguments every mode needs are present
ArgsGiven == real_blkdev # NULL /\ key # NULL

\* the modes that build an integrity device
IntegrityModes ==
    { CRYPTFS_MODE_AUTHENC, CRYPTFS_MODE_INTEGRITY_ENCRYPT, CRYPTFS_MODE_INTEGRITY_ONLY }

\* the tables, inactive or live, the kernel holds for a target type
KernelTables(type) ==
    { t \in UNION { { dm[n].inactive, dm[n].live } : n \in DOMAIN dm } :
        t.target_type = type }

\* setup returned a mapper device
SetupSucceeded == pc = "idle" /\ called /\ ret \notin { "none", NULL }

\* C1: whenever setup returns failure, no mapper device named <label> or
\* <label>-integrity exists afterwards (checked before any later delete call).
C1_FailedSetupLeavesNoDevice ==
    (pc = "idle" /\ called /\ ret = NULL /\ deletes = 0) => NoVolumeDevice

\* C2: for each of the four modes, once setup has succeeded and
\* cryptfs_delete_blk_dev has been called while nothing held the devices open
\* and has returned 0, neither <label> nor <label>-integrity exists.
C2_SetupThenDeleteRemovesAll ==
    (SetupSucceeded /\ mode # CRYPTFS_MODE_NOT_IMPLEMENTED
        /\ deletes >= 1 /\ ~del.held /\ del.ret = 0)
    => NoVolumeDevice

\* C2 happens: a two-device volume was set up and then deleted
C2_Witness ==
    /\ SetupSucceeded
    /\ mode = CRYPTFS_MODE_INTEGRITY_ENCRYPT
    /\ ret = cryptfs_get_device_path_new(LABEL)
    /\ deletes = 1 /\ ~del.held /\ del.ret = 0
    /\ DOMAIN dm = {}

\* C3: in the three modes that build an integrity device, setup called without
\* a meta device fails and creates no mapper device, no node and writes nothing.
C3_NoMetaNoSideEffect ==
    (called /\ ArgsGiven /\ meta_blkdev = NULL /\ mode \in IntegrityModes)
    => /\ DOMAIN dm = {}
       /\ nodes = {}
       /\ out.zeroed = 0
       /\ (pc = "idle" => ret = NULL)

\* the key has a length the strict modes do not accept
StrictLengthWrong ==
    \/ mode = CRYPTFS_MODE_INTEGRITY_ENCRYPT /\ strlen(heap.key) # CRYPTO_HEXKEY_LEN + 64
    \/ mode = CRYPTFS_MODE_INTEGRITY_ONLY /\ strlen(heap.key) # 64

\* C4: in IntegrityEncrypt mode a key whose length is not the crypto hex length
\* plus 64, and in IntegrityOnly mode a key whose length is not 64, makes setup
\* fail in its validation: no key copy is ever made and no device is created.
C4_StrictKeyLength ==
    (called /\ ArgsGiven /\ StrictLengthWrong)
    => /\ pc \in { "validate", "idle" }
       /\ (pc = "idle" => ret = NULL)
       /\ heap.crypto_key.st = "none"
       /\ heap.integrity_key.st = "none"
       /\ DOMAIN dm = {}
       /\ nodes = {}

\* C4 happens: an IntegrityEncrypt call with a key one character too long returned
C4_Witness ==
    /\ pc = "idle" /\ called /\ ArgsGiven /\ meta_blkdev # NULL
    /\ mode = CRYPTFS_MODE_INTEGRITY_ENCRYPT
    /\ strlen(heap.key) = CRYPTO_HEXKEY_LEN + 64 + 1
    /\ ret = NULL

\* the two modes that take the whole key as the crypto key, with their arguments
LenientCall ==
    /\ ArgsGiven
    /\ \/ mode = CRYPTFS_MODE_ENCRYPT_ONLY
       \/ mode = CRYPTFS_MODE_AUTHENC /\ meta_blkdev # NULL

\* the hex length the mode expects
ExpectedLen == IF mode = CRYPTFS_MODE_AUTHENC THEN 192 ELSE 128

ExpectedIntegrityKey ==
    IF mode = CRYPTFS_MODE_INTEGRITY_ENCRYPT
    THEN HexRange(CRYPTO_HEXKEY_LEN + 1, CRYPTO_HEXKEY_LEN + 64)
    ELSE HexRange(1, 64)

\* the integrity parameter string as the specification writes it
ExpectedIntegrityParams ==
    IF mode = CRYPTFS_MODE_AUTHENC
    THEN DATA_DEV \o " 0 32 J 1 meta_device:" \o META_DEV
    ELSE DATA_DEV \o " 0 32 J 3 meta_device:" \o META_DEV
             \o " internal_hash:hmac(sha256):" \o ExpectedIntegrityKey \o " allow_discards"

\* C6: the parameter string handed to DM_TABLE_LOAD for the integrity target,
\* and every integrity table the kernel holds, is character for character the
\* standalone form (IntegrityEncrypt, IntegrityOnly) with the integrity-key
\* suffix of the caller's key, or the stacked form (AuthEnc).
C6_IntegrityParams ==
    /\ (pc = "int_load_loop" /\ meta_blkdev # NULL) => b.tgt.params = ExpectedIntegrityParams
    /\ \A t \in KernelTables("integrity") : t.params = ExpectedIntegrityParams

\* C6 happens: a standalone integrity table with a key is live
C6_Witness ==
    /\ mode = CRYPTFS_MODE_INTEGRITY_ENCRYPT
    /\ DmExists(dm, IntegrityLabel(LABEL))
    /\ dm[IntegrityLabel(LABEL)].live # NoTable
    /\ pc = "encrypt"

\* the crypto-key prefix of the caller's key
ExpectedCryptoKey ==
    IF mode = CRYPTFS_MODE_INTEGRITY_ENCRYPT THEN HexRange(1, CRYPTO_HEXKEY_LEN)
    ELSE HexRange(1, strlen(heap.key))

\* the crypt parameter string as the specification writes it, over device dev
ExpectedCryptoParams(dev) ==
    IF mode = CRYPTFS_MODE_AUTHENC
    THEN "capi:authenc(hmac(sha256),xts(aes))-random " \o ExpectedCryptoKey \o " 0 " \o dev
             \o " 0 1 integrity:32:aead"
    ELSE "aes-xts-plain64 " \o ExpectedCryptoKey \o " 0 " \o dev \o " 0 1 allow_discards"

\* C7: for a non-empty key, the parameter string handed to DM_TABLE_LOAD for the
\* crypt target, and every crypt table the kernel holds, is the plain form in
\* EncryptOnly and IntegrityEncrypt mode and the AEAD form in AuthEnc mode, over
\* the device the builder was given; the builder's flag is setup's stacked flag.
C7_CryptoParams ==
    /\ (pc \in { "cry_open", "cry_create", "cry_load" }) => b.integrity = f.stacked
    /\ (pc = "cry_load_loop" /\ b.real_blk_name # NULL /\ strlen(heap.key) >= 1)
            => b.tgt.params = ExpectedCryptoParams(b.real_blk_name)
    /\ (key # NULL /\ strlen(heap.key) >= 1)
            => \A t \in KernelTables("crypt") :
                   \E dev \in t.deps : t.params = ExpectedCryptoParams(dev)

\* C7 happens: in IntegrityEncrypt mode, where the integrity flag and the
\* stacked flag differ, the crypt table is live
C7_Witness ==
    /\ mode = CRYPTFS_MODE_INTEGRITY_ENCRYPT
    /\ DmExists(dm, LABEL)
    /\ dm[LABEL].live # NoTable
    /\ dm[LABEL].live.target_type = "crypt"

\* C8: the crypt device is built over the integrity device exactly when this
\* call built one, and over data_dev otherwise; its backing device is never
\* absent.
C8_CryptBacking ==
    (pc \in { "cry_open", "cry_create", "cry_load" })
    => /\ b.real_blk_name # NULL
       /\ b.real_blk_name =
              IF f.integrity_blkdev # NULL THEN f.integrity_blkdev ELSE real_blkdev

\* the settings validation chose for this call
Chosen == ModeSwitch(mode, heap.key, meta_blkdev)

\* every byte of the allocation is a zero byte
AllZero(data) == \A i \in 1..Len(data) : data[i] = NUL

\* C9: when setup has returned after splitting the key, each split copy has been
\* released and held zero bytes over its whole length when it was released, and
\* the caller's key buffer still holds the caller's bytes.
C9_KeysZeroized ==
    (pc = "idle" /\ called /\ ArgsGiven)
    => /\ heap.key = Buf(HexKey(Len(heap.key) - 1))
       /\ \A c \in { heap.crypto_key, heap.integrity_key } :
              /\ c.st # "live"
              /\ c.st = "freed" => AllZero(c.data)
       /\ Chosen.act = "go"
            => /\ Chosen.crypto_key_len > 0
                    => /\ heap.crypto_key.st = "freed"
                       /\ Len(heap.crypto_key.data) = Chosen.crypto_key_len + 1
               /\ Chosen.integrity_key_len > 0
                    => /\ heap.integrity_key.st = "freed"
                       /\ Len(heap.integrity_key.data) = Chosen.integrity_key_len + 1

\* C9 happens: a failed IntegrityEncrypt setup has released both copies
C9_Witness ==
    /\ pc = "idle" /\ called
    /\ mode = CRYPTFS_MODE_INTEGRITY_ENCRYPT
    /\ ret = NULL
    /\ heap.crypto_key.st = "freed"
    /\ heap.integrity_key.st = "freed"

\* the key material of the call: the caller's key and the two split substrings
KeyStrings ==
    IF key = NULL \/ strlen(heap.key) = 0 THEN {}
    ELSE { HexRange(1, strlen(heap.key)) }
         \cup (IF Chosen.act = "go"
               THEN { s \in { HexRange(1, Chosen.crypto_key_len),
                              HexRange(Chosen.crypto_key_len + 1,
                                       Chosen.crypto_key_len + Chosen.integrity_key_len) } :
                        s # "" }
               ELSE {})

\* C10: no log statement of setup or of the two builders is handed key material.
C10_NoKeyInLog == \A e \in log : e.arg \notin KeyStrings

\* the sector count setup intends for the volume
IntendedSectors == IF blk.sector_size > 0 THEN blk.bytes \div blk.sector_size ELSE 0

\* the meta device is readable and is fresh (no tag) or initialised for a
\* sector count other than n
FreshOrMismatch(n) ==
    metaSb.bytes >= 8 /\ (metaSb.magic # "integrt" \/ metaSb.pds # n)

\* setup entered the first-use initialization of the outer device
FirstUseDeclared == \E e \in log : e.line = 767

\* C13: for every sector count of at least 1, once setup has probed a meta
\* device that is fresh or was initialised for another sector count, first use
\* is declared, and a setup that succeeds has zero-initialized the outer device.
C13_FirstUseDeclared ==
    /\ (/\ f.fn = "cryptfs_setup_volume_new"
        /\ pc \notin { "validate", "split", "probe", "integrity" }
        /\ f.integrity /\ meta_blkdev # NULL
        /\ f.fs_size >= 1 /\ FreshOrMismatch(f.fs_size))
       => f.initial_format
    /\ (/\ SetupSucceeded /\ mode \in IntegrityModes /\ meta_blkdev # NULL
        /\ IntendedSectors >= 1 /\ FreshOrMismatch(IntendedSectors))
       => FirstUseDeclared

\* C14: when first use was declared and setup succeeded, the zero writes cover
\* sectors x sector_size(data_dev) bytes of the outer device.
C14_ZeroWritesCoverPayload ==
    (SetupSucceeded /\ FirstUseDeclared)
    => out.zeroed = IntendedSectors * blk.sector_size

\* C15: when first use was declared and setup succeeded, the last operation on
\* the outer device was a successful fsync after all zero writes.
C15_FsyncLast ==
    (SetupSucceeded /\ FirstUseDeclared) => out.synced

\* the names cryptfs_delete_blk_dev has to remove for a mode, in order
ExpectedRemovals ==
    CASE mode \in { CRYPTFS_MODE_AUTHENC, CRYPTFS_MODE_INTEGRITY_ENCRYPT } ->
            << LABEL, IntegrityLabel(LABEL) >>
      [] mode = CRYPTFS_MODE_ENCRYPT_ONLY -> << LABEL >>
      [] mode = CRYPTFS_MODE_INTEGRITY_ONLY -> << IntegrityLabel(LABEL) >>
      [] OTHER -> << >>

\* C16: whichever of the two devices exist when cryptfs_delete_blk_dev is
\* called, and provided the control device could be opened, the call hands
\* <label> and then <label>-integrity to DM_DEV_REMOVE (those the mode has) and
\* returns 0; so a second call in a row returns 0 as well.
C16_DeleteToleratesAbsent ==
    (/\ deletes >= 1
     /\ mode \in Modes \ { CRYPTFS_MODE_NOT_IMPLEMENTED, CRYPTFS_MODE_OTHER }
     /\ ~del.openfail)
    => /\ del.ret = 0
       /\ del.tried = ExpectedRemovals

\* C16 happens: the second call in a row found both devices absent, tried both
\* removals in order and returned 0
C16_Witness ==
    /\ deletes = 2
    /\ mode = CRYPTFS_MODE_INTEGRITY_ENCRYPT
    /\ del.before = {}
    /\ del.tried = << LABEL, IntegrityLabel(LABEL) >>
    /\ del.ret = 0

\* C17: in NotImplemented mode a call with its arguments present returns in
\* validation with a path equal to data_dev: no builder is entered, no mapper
\* device and no node exists, no copy of the key is made, the key is not logged
\* and nothing is written.
C17_NotImplementedPassthrough ==
    (called /\ ArgsGiven /\ mode = CRYPTFS_MODE_NOT_IMPLEMENTED)
    => /\ pc \in { "validate", "idle" }
       /\ pc = "idle" => ret = real_blkdev
       /\ DOMAIN dm = {}
       /\ nodes = {}
       /\ heap.crypto_key.st = "none" /\ heap.integrity_key.st = "none"
       /\ heap.key = Buf(HexKey(Len(heap.key) - 1))
       /\ \A e \in log : e.line = 652 /\ e.arg = real_blkdev
       /\ out = [zeroed |-> 0, synced |-> FALSE]

\* C17 happens: a NotImplemented call with a key returned the data device
C17_Witness ==
    /\ pc = "idle" /\ called /\ ArgsGiven
    /\ mode = CRYPTFS_MODE_NOT_IMPLEMENTED
    /\ strlen(heap.key) = CRYPTO_HEXKEY_LEN
    /\ ret = DATA_DEV

(***************************************************************************)
(* Properties of the container's volume module (c_vol.c), under VolSpec.   *)
(***************************************************************************)
\* a step is a call of c_vol_set_dm_mode (by c_vol_start_pre_clone or by
\* c_vol_get_mode)
SetDmModeStep ==
    \/ vpc = "new" /\ vpc' = "child_early"
    \/ vpc \in { "new", "running", "start_failed", "cleaned" } /\ vpc' = vpc

\* the mode of the not-stacked policy for a container
NotStackedMode ==
    IF container.is_c0 THEN CRYPTFS_MODE_INTEGRITY_ONLY ELSE CRYPTFS_MODE_INTEGRITY_ENCRYPT

\* C18: a call of c_vol_set_dm_mode chooses the not-stacked mode (IntegrityOnly
\* for c0, IntegrityEncrypt otherwise) when the marker is present, AuthEnc when
\* it is absent and prior images exist, and in both cases does not touch the
\* marker or the images directory; with neither marker nor prior images it
\* chooses the not-stacked mode and calls file_touch on the marker.
C18_SetDmModePolicy ==
    [][SetDmModeStep =>
         /\ files.not_stacked =>
               vol'.mode = NotStackedMode /\ files' = files /\ ~hist'.touched
         /\ (~files.not_stacked /\ files.images) =>
               vol'.mode = CRYPTFS_MODE_AUTHENC /\ files' = files /\ ~hist'.touched
         /\ (~files.not_stacked /\ ~files.images) =>
               /\ vol'.mode = NotStackedMode
               /\ hist'.touched
               /\ files'.images = files.images]_vars

\* C18 happens: a container other than c0 without marker and prior images was
\* given IntegrityEncrypt and the marker was written
C18_Witness ==
    /\ vpc = "child_early"
    /\ ~container.is_c0
    /\ vol.mode = CRYPTFS_MODE_INTEGRITY_ENCRYPT
    /\ hist.touched /\ files.not_stacked /\ ~files.images

\* C12: every bind mount of a read-only bind entry (BindFile or BindDir) for
\* which c_vol_mount_image returned success is read-only.
C12_ReadOnlyBind ==
    \A i \in 1..Len(mtab) :
       (mtab[i].bind /\ mtab[i].declared_ro /\ mtab[i].ok) => mtab[i].ro

\* a sequence in reverse, and s being a prefix of t
Reverse(s) == [i \in 1..Len(s) |-> s[Len(s) + 1 - i]]
PrefixOf(s, t) == Len(s) <= Len(t) /\ SubSeq(t, 1, Len(s)) = s

\* the images in declaration order: the setup mount set, used in setup mode,
\* then the container's mount set
DeclaredImages ==
    [i \in 1..Len(container.mnt_setup \o container.mnt) |->
        (container.mnt_setup \o container.mnt)[i].img]

\* C11: c_vol_mount_image is called for the entries in declaration order, and
\* c_vol_umount_all unmounts the directories mounted at its call in the reverse
\* of the order they were mounted in, all of them when it returns 0, also in
\* setup mode.
C11_MountOrderReversed ==
    /\ PrefixOf(hist.attempts, DeclaredImages)
    /\ PrefixOf(hist.umounts, Reverse(hist.mounted0))
    /\ (vpc # "umount_all" /\ hist.umount_ret = "ok") => hist.umounts = Reverse(hist.mounted0)

\* C19: whenever c_vol_cleanup_dm hands a device of the container to
\* DM_DEV_REMOVE, in c_vol_cleanup and in the failure path of
\* c_vol_mount_images, no mount is rooted on that device and every mount of the
\* container has been released, also after a failed unmount.
C19_RemovalAfterUnmount ==
    \A r \in hist.removals :
       /\ cryptfs_get_device_path_new(r.name) \notin r.devs
       /\ r.mounted = << >>

\* the container was started (its /dev was mounted) and c_vol_cleanup with
\* is_rebooting = false has returned, after c_vol_umount_all returned 0, the
\* control device could be opened each time and nothing holds a device open
CleanedAfterStart ==
    /\ vpc = "cleaned"
    /\ hist.rebooting = "no"
    /\ vol_root \o << "dev" >> \in Range(hist.mounted0)
    /\ hist.umount_ret = "ok"
    /\ hist.control = "opened"
    /\ openers = {}

\* C20: after a start of a container with encrypted entries and a
\* c_vol_cleanup with is_rebooting = false in which every unmount succeeded,
\* neither <uuid>-<image> nor <uuid>-<image>-integrity exists for any encrypted
\* entry, in each of the modes AuthEnc, IntegrityEncrypt and IntegrityOnly.
C20_NoDeviceAfterCleanup ==
    CleanedAfterStart =>
       \A e \in Range(container.mnt) :
          e.encrypted =>
             /\ ~DmExists(dm, VolLabel(e))
             /\ ~DmExists(dm, IntegrityLabel(VolLabel(e)))

(***************************************************************************)
(* The table-load loops and the single-shot ioctls.                        *)
(***************************************************************************)
\* a pass of one of the two DM_TABLE_LOAD loops
LoadPass == pc \in { "int_load_loop", "cry_load_loop" } /\ b' # b

\* C23: each table load issues DM_TABLE_LOAD at most TABLE_LOAD_RETRIES times: a pass
\* is made only while fewer than TABLE_LOAD_RETRIES attempts failed, the first success
\* leaves the loop and reports the number of attempts made (1..TABLE_LOAD_RETRIES), a
\* failed attempt either counts one up or, being the last one allowed, reports failure
C23_TableLoadBounded ==
    [][LoadPass =>
          /\ b.counter < TABLE_LOAD_RETRIES
          /\ \/ /\ dm' # dm
                /\ pc' \in { "int_resume", "cry_resume" }
                /\ b'.load_count = b.counter + 1
                /\ b'.load_count \in 1..TABLE_LOAD_RETRIES
             \/ /\ dm' = dm
                /\ pc' = pc
                /\ b'.counter = b.counter + 1
                /\ b'.counter < TABLE_LOAD_RETRIES
             \/ /\ dm' = dm
                /\ pc' = "error"
                /\ b.counter + 1 = TABLE_LOAD_RETRIES]_vars

\* the last allowed attempt of a table load succeeded
C23_Witness ==
    /\ pc \in { "int_resume", "cry_resume" }
    /\ b.load_count = TABLE_LOAD_RETRIES

\* C24: DM_DEV_CREATE is issued at most once per call: no pass of a create loop is
\* made after a failed DM_DEV_CREATE
C24_CreateIssuedOnce == pc \in { "int_create", "cry_create" } => b.counter = 0

\* C25: the next-target offset of every loaded table is a multiple of 8, lies at or
\* past the end of the terminated parameter string and within the buffer
C25_NextAligned ==
    \A n \in DOMAIN dm :
        \A t \in { dm[n].inactive, dm[n].live } \ { NoTable } :
            /\ t.next % 8 = 0
            /\ t.next >= SIZEOF_DM_IOCTL + SIZEOF_DM_TARGET_SPEC + Len(t.params) + 1
            /\ t.next <= (IF t.target_type = "integrity" THEN DM_INTEGRITY_BUF_SIZE
                          ELSE DM_CRYPT_BUF_SIZE)

\* C26: the table descriptor starts at sector 0 and its length is the device's byte
\* size divided by its sector size, as a 64-bit count
C26_LengthIsSectorCount ==
    pc = "loaded64" =>
        /\ b.tgt.sector_start = 0
        /\ b.tgt.length = U64Div(blk.bytes, blk.sector_size)

(***************************************************************************)
(* Properties of c_vol_mount_image and c_vol_start_child_early.            *)
(***************************************************************************)
\* the c_vol_mount_image that returned last, and the calls it made
Last == hist.last
LastOps == { Last.calls[i].op : i \in 1..Len(Last.calls) }

\* C22: when c_vol_start_child_early has returned failure, every mount it made
\* has been undone
C22_FailedStartUndone ==
    (vpc = "start_failed" /\ hist.rebooting = "none") => mtab = << >>

\* C27: c_vol_mount_image on a FLASH entry makes no call on the target directory
\* and returns success
C27_FlashSkipped ==
    Last.e.type = MOUNT_TYPE_FLASH => Last.ret = 0 /\ Last.calls = << >>

\* C28: for a BIND_DIR and a BIND_DIR_RW entry, with every call it made succeeding,
\* c_vol_mount_image returns success and the host path is bind-mounted at the
\* entry's directory, read-only exactly for BIND_DIR
C28_BindDirMounted ==
    (/\ Last.e.type \in { MOUNT_TYPE_BIND_DIR, MOUNT_TYPE_BIND_DIR_RW }
     /\ \A i \in 1..Len(Last.calls) : Last.calls[i].res = "ok") =>
        /\ Last.ret = 0
        /\ \E i \in 1..Len(mtab) :
              /\ mtab[i].path = c_root(container.setup_mode) \o Last.e.dir
              /\ mtab[i].dev = Last.e.img
              /\ mtab[i].bind
              /\ mtab[i].ro = (Last.e.type = MOUNT_TYPE_BIND_DIR)

\* the last call reached the mount of a device, and it failed with EINVAL
MountTried == "mount" \in LastOps
MountEinval == Ev("mount", "EINVAL") \in Range(Last.calls)

\* C29 as stated: the device is formatted, and mounted again after a successful
\* format, exactly when the entry is EMPTY and the mount failed with EINVAL
C29_FormatOnEinval ==
    MountTried =>
        /\ "mkfs" \in LastOps <=> (Last.e.type = MOUNT_TYPE_EMPTY /\ MountEinval)
        /\ "mount2" \in LastOps <=> Ev("mkfs", "ok") \in Range(Last.calls)
        /\ Range(Last.calls) \cap { Ev("mount", "ok"), Ev("mount2", "ok") } = {} =>
              Last.ret = -1

\* C29, amended: the device is formatted, and mounted again after a successful
\* format, exactly when the entry is EMPTY, the mount failed with EINVAL, and the
\* entry is not an encrypted one whose image existed before the call
C29_FormatOnEinvalUnlessOldEncrypted ==
    MountTried =>
        /\ "mkfs" \in LastOps <=>
              /\ Last.e.type = MOUNT_TYPE_EMPTY
              /\ MountEinval
              /\ ~(Last.e.encrypted /\ "create_image" \notin LastOps)
        /\ "mount2" \in LastOps <=> Ev("mkfs", "ok") \in Range(Last.calls)
        /\ Range(Last.calls) \cap { Ev("mount", "ok"), Ev("mount2", "ok") } = {} =>
              Last.ret = -1

\* an EMPTY entry was formatted after EINVAL and mounted at the second try
C29_Witness ==
    /\ Last.e.type = MOUNT_TYPE_EMPTY
    /\ MountEinval
    /\ Ev("mount2", "ok") \in Range(Last.calls)
    /\ Last.ret = 0

\* C30: in a container without key cryptfs_setup_volume_new is never called and
\* no mapper device or node is made; c_vol_mount_image on an encrypted entry
\* fails, mounts nothing and releases the loop device it had allocated
C30_NoKeyFails ==
    ~container.has_key =>
        /\ ~called /\ pc = "idle" /\ dm = << >> /\ nodes = {}
        /\ \A i \in 1..Len(mtab) : mtab[i].img # E_data.img
        /\ (Last.e.type # "none" /\ Last.e.encrypted) =>
              /\ Last.ret = -1
              /\ LastOps \subseteq { "create_image", "loop", "loop_free" }
              /\ \A i \in 1..Len(Last.calls) :
                    (Last.calls[i].op = "loop" /\ Last.calls[i].res # "fail") =>
                        \E j \in (i + 1)..Len(Last.calls) :
                            Last.calls[j] = Ev("loop_free", Last.calls[i].res)

\* the encrypted entry of a container without key failed after its loop device
\* was allocated
C30_Witness ==
    /\ ~container.has_key
    /\ Last.e.type # "none"
    /\ Last.e.encrypted
    /\ Last.ret = -1
    /\ "loop_free" \in LastOps

(***************************************************************************)
(* Properties of c_vol_do_shared_bind_mounts, under ShareSpec.             *)
(***************************************************************************)
\* every container of the run has a bind-file entry
AllBind == vpc = "shared" /\ \A p \in Procs : container.contains_bind[p]

\* C21: when containers with bind-file entries run c_vol_do_shared_bind_mounts
\* at the same time, _store.img is created at most once and formatted at most
\* once, and at most one mount lies on files_shared, in every interleaving.
C21_StoreSetUpOnce ==
    AllBind => /\ hist.creates <= 1
               /\ hist.formats <= 1
               /\ Len(mtab) <= 1

(***************************************************************************)
(* Properties of the waits for a device node, under WaitSpec.              *)
(***************************************************************************)
\* C31: every wait for a produced device node ends at the latest when the
\* caller's deadline has expired, also when the node never appears.
C31_WaitEndsAtDeadline ==
    (vpc = "wait" /\ hist.now >= hist.deadline) ~> (vf.pc # "access")

(***************************************************************************)
(* Properties of the first-use decision (cryptfs.c), under Spec.           *)
(***************************************************************************)
\* the volume is initialised: the mode builds no integrity device, or the meta
\* device carries the tag with the intended sector count
Initialised ==
    \/ mode \notin IntegrityModes
    \/ /\ IntendedSectors >= 1
       /\ metaSb.magic = "integrt"
       /\ metaSb.pds = IntendedSectors

\* C36: setup never zero-fills a volume that is initialised, also when the read
\* of the superblock fails or comes short: first use is not declared and no
\* zero is written to the outer device.
C36_NoZeroFillInitialised ==
    Initialised => ~FirstUseDeclared /\ out.zeroed = 0

\* C38: cryptfs_delete_blk_dev returns 0 only if every device the mode covers
\* was removed or was absent; a DM_DEV_REMOVE that fails for another reason
\* (the device is busy) makes it return failure.
C38_DeleteReportsBusy ==
    (deletes >= 1 /\ pc = "idle" /\ del.ret = 0) =>
        \A i \in 1..Len(ExpectedRemovals) : ~DmExists(dm, ExpectedRemovals[i])

(***************************************************************************)
(* Properties of c_vol_start_child_early, under VolSpec.                   *)
(***************************************************************************)
\* the entries of both mount sets of the container
AllEntries == Range(container.mnt) \cup Range(container.mnt_setup)

\* C33: every Shared image (none of the model carries a verity hash) was
\* verified before the first mount is attempted, and after a failed
\* verification no directory was made, no image created and nothing mounted.
C33_VerifiedBeforeMount ==
    vpc \notin { "new", "child_early" } =>
        /\ hist.attempts # << >> =>
              \A e \in AllEntries : e.type = MOUNT_TYPE_SHARED => e.img \in hist.verified
        /\ hist.early = "verify_failed" =>
              /\ hist.mkdirs = 0
              /\ hist.attempts = << >>
              /\ mtab = << >>
              /\ Last.e.type = "none"

\* C34: c_vol_umount_all issues its unmounts on the directories
\* c_vol_mount_images mounted on, in setup mode and in normal mode: when it has
\* returned 0, every directory that was mounted at its call was unmounted and
\* nothing is mounted below the container's root.
C34_UmountPathsMatch ==
    (vpc # "umount_all" /\ hist.umount_ret = "ok") =>
        /\ Range(hist.mounted0) \subseteq Range(hist.umounts)
        /\ mtab = << >>

\* C39: when a bind-file entry has touched and bind-mounted its source file
\* under files_shared, the shared store is mounted there.
C39_StoreMountedBeforeBind ==
    (Last.e.type = MOUNT_TYPE_BIND_FILE /\ Ev("bind", "ok") \in Range(Last.calls))
        => files.store_mounted

\* the calls c_vol_mount_image has made for the entry
ImgCalls == Range(hist.calls)

\* C32: when file_copy failed, c_vol_create_image_copy returns failure and the
\* image does not count as created, for ext4 and for btrfs.
C32_CopyFailureReported ==
    (vpc = "mount_image" /\ Ev("file_copy", "fail") \in ImgCalls)
        => Ev("create_image", "fail") \in ImgCalls /\ vf.pc \in { "error", "return" }

\* C37: mkfs runs on the device of an encrypted entry only when the image was
\* not there before the call, in the overlay block and after EINVAL.
C37_NoFormatOfOldEncrypted ==
    (vpc = "mount_image" /\ container.e.encrypted /\ hist.existed)
        => \A r \in { "ok", "fail" } : Ev("mkfs", r) \notin ImgCalls

\* an encrypted EMPTY entry with an old image failed both mounts with EINVAL
\* and the call returned without a format
C37_Witness ==
    /\ vpc = "mount_image" /\ vf.pc = "return"
    /\ container.e.encrypted /\ hist.existed
    /\ container.e.type = MOUNT_TYPE_EMPTY
    /\ Ev("mount", "EINVAL") \in ImgCalls
    /\ vf.ret = -1

\* C40: every close is made on a descriptor that is open, and at the return
\* every descriptor the function obtained has been closed exactly once.
C40_DescriptorsClosedOnce ==
    vpc = "mount_image"
        => /\ \A i \in 1 .. Len(hist.closes) : hist.closes[i].open
           /\ vf.pc = "return"
                => \A d \in Range(hist.opened) :
                      Cardinality({ i \in 1 .. Len(hist.closes) : hist.closes[i].fd = d }) = 1

\* C35: in a start that follows the c_vol_cleanup of a reboot, no encrypted
\* entry calls cryptfs_setup_volume_new: each finds the node of its mapper
\* device and mounts it.
C35_RestartReusesDevices ==
    (hist.fn = "c_vol" /\ hist.restarts >= 1) => ~called

====
